---------------------------- MODULE Spec2Model ----------------------------
(***************************************************************************)
(* Model of the finance-briefer orchestrator: query understanding          *)
(* (SmartOrchestrator._understand_query), the portfolio retriever          *)
(* (PortfolioAgent.process), the portfolio filter and allocator            *)
(* (SmartOrchestrator._filter_portfolio_data), the tool adapters           *)
(* (EODHDTool, EarningsSurpriseTool, CompanyMetadataTool, NewsTool), the   *)
(* per-symbol fetch loops and the risk estimator of the orchestrator, the  *)
(* processing of a query (process_query, WorkflowManager.process,          *)
(* SmartOrchestrator.process), the external calls of one query taken one   *)
(* at a time, a session of queries on one orchestrator, the speech         *)
(* services with the UI script, and the embedding service with the         *)
(* document store (EmbeddingService, batch_upsert_text).                   *)
(*                                                                         *)
(* Texts are sequences of one-character strings, so that str.lower() and   *)
(* the substring test `word in text` are computed and not assumed; the     *)
(* fixed messages of the program are texts of one fragment.                *)
(* Percentages are exact rationals <<numerator, denominator>>.             *)
(* An exception is an outcome of its own, so that a handler that catches   *)
(* it is seen to do so.                                                    *)
(***************************************************************************)
EXTENDS Integers, Sequences, FiniteSets, TLC

VARIABLES
    pc,               \* position of the modelled call
    query,            \* query["query"], the text handed to _understand_query
    llm_response,     \* outcome of chain.ainvoke in _understand_query
    query_analysis,   \* outcome of _understand_query
    store_result,     \* what query_text returned to PortfolioAgent.process
    agent_result,     \* envelope returned by PortfolioAgent.process
    portfolio_data,   \* snapshot handed to _filter_portfolio_data
    query_filters,    \* filters handed to _filter_portfolio_data
    filtered_portfolio, \* outcome of _filter_portfolio_data
    tool_call,        \* the adapter call under way and what its provider did
    tool_result,      \* what the adapter call returned
    source_calls,     \* the requests NewsTool.execute made, in order
    stock_data,       \* data["stock"]: the aggregate of _get_stock_data
    earnings_data,    \* data["earnings"]: the aggregate of _get_earnings_data
    news_data,        \* data["news"]: the aggregate of _get_news
    risk_analysis,    \* data["risk"]: outcome of _calculate_portfolio_risk
    request,          \* the query argument of process_query
    process_symbols,  \* the symbols list of process
    calls,            \* the requests to providers and to the model, in order
    composition,      \* outcome of chain.ainvoke in _analyze_with_llm
    process_result,   \* what SmartOrchestrator.process returned
    response,         \* what process_query returned
    credentials,      \* GOOGLE_APPLICATION_CREDENTIALS_JSON in the environment
    tts_state,        \* tts_service: its client, or the exception of its import
    stt_client,       \* whether stt_service.speech_client is set
    enable_voice,     \* the checkbox "Enable Voice Output"
    speech_input_enabled, \* st.session_state.speech_input_enabled
    messages,         \* st.session_state.messages, by role
    notice,           \* the warning or error the UI showed last
    outstanding,      \* the external calls issued and not yet returned
    cursor,           \* position of a fetch loop in the symbols list
    orchestrator,     \* the fields of the SmartOrchestrator singleton
    session,          \* the queries answered so far, with what each was given
    records,          \* the records of the namespace of the document store
    embedded          \* the chunk lists of the embed_text calls so far

base_vars == <<query, llm_response, query_analysis, store_result, agent_result,
               portfolio_data, query_filters, filtered_portfolio>>

adapter_vars == <<tool_call, tool_result, source_calls>>

fetch_vars == <<stock_data, earnings_data, news_data, risk_analysis>>

\* the variables beyond those of query understanding, retrieval and filtering
process_vars == <<request, process_symbols, calls, composition, process_result,
                  response>>

speech_vars == <<credentials, tts_state, stt_client, enable_voice,
                 speech_input_enabled, messages, notice>>

later_vars == <<adapter_vars, fetch_vars, process_vars, speech_vars>>

flow_vars == <<outstanding, cursor>>

session_vars == <<orchestrator, session>>

store_vars == <<records, embedded>>

final_vars == <<flow_vars, session_vars, store_vars>>

vars == <<pc, base_vars, later_vars, final_vars>>

-----------------------------------------------------------------------------
(* Bounds *)

\* number of vocabulary fragments a query text is built from
MaxWords == 2

\* largest number of shares of a holding
MaxShares == 2

\* largest number of holdings of a portfolio handed to the filter
MaxHoldings == 2

\* largest number of hits the document store returns
MaxHits == 2
MaxHistory == 4
MaxMessages == 4

-----------------------------------------------------------------------------
(* Texts *)

LowerOf ==
    [c \in {"A","B","C","D","E","F","G","H","I","J","K","L","M",
            "N","O","P","Q","R","S","T","U","V","W","X","Y","Z"} |->
        CASE c = "A" -> "a" [] c = "B" -> "b" [] c = "C" -> "c" [] c = "D" -> "d"
          [] c = "E" -> "e" [] c = "F" -> "f" [] c = "G" -> "g" [] c = "H" -> "h"
          [] c = "I" -> "i" [] c = "J" -> "j" [] c = "K" -> "k" [] c = "L" -> "l"
          [] c = "M" -> "m" [] c = "N" -> "n" [] c = "O" -> "o" [] c = "P" -> "p"
          [] c = "Q" -> "q" [] c = "R" -> "r" [] c = "S" -> "s" [] c = "T" -> "t"
          [] c = "U" -> "u" [] c = "V" -> "v" [] c = "W" -> "w" [] c = "X" -> "x"
          [] c = "Y" -> "y" [] c = "Z" -> "z"]

\* str.lower()
Lower(s) == [i \in 1..Len(s) |-> IF s[i] \in DOMAIN LowerOf THEN LowerOf[s[i]] ELSE s[i]]

\* `w in s` for two texts
Contains(s, w) ==
    \E i \in 1..(Len(s) - Len(w) + 1) : SubSeq(s, i, i + Len(w) - 1) = w

\* any(word in s for word in ws)
ContainsAny(s, ws) == \E w \in ws : Contains(s, w)

W_risk          == <<"r","i","s","k">>
W_exposure      == <<"e","x","p","o","s","u","r","e">>
W_concentration == <<"c","o","n","c","e","n","t","r","a","t","i","o","n">>
W_earnings      == <<"e","a","r","n","i","n","g","s">>
W_surprise      == <<"s","u","r","p","r","i","s","e">>
W_report        == <<"r","e","p","o","r","t">>
W_news          == <<"n","e","w","s">>
W_headline      == <<"h","e","a","d","l","i","n","e">>
W_update        == <<"u","p","d","a","t","e">>
W_stock         == <<"s","t","o","c","k">>
W_price         == <<"p","r","i","c","e">>
W_market        == <<"m","a","r","k","e","t">>
W_asia          == <<"a","s","i","a">>
W_tech          == <<"t","e","c","h">>

\* "Show me risk exposure in Asia tech stocks"
TestQuery ==
    <<"S","h","o","w"," ","m","e"," ","r","i","s","k"," ",
      "e","x","p","o","s","u","r","e"," ","i","n"," ",
      "A","s","i","a"," ","t","e","c","h"," ","s","t","o","c","k","s">>

\* fragments the query texts are built from (mixed case, keywords inside
\* longer words, and words that hold no keyword)
Vocabulary ==
    { <<"R","i","s","k","y"," ">>,
      <<"E","x","p","o","s","u","r","e"," ">>,
      <<"c","o","n","c","e","n","t","r","a","t","i","o","n"," ">>,
      <<"E","a","r","n","i","n","g","s"," ">>,
      <<"s","u","r","p","r","i","s","e","d"," ">>,
      <<"R","E","P","O","R","T"," ">>,
      <<"N","e","w","s"," ">>,
      <<"h","e","a","d","l","i","n","e","s"," ">>,
      <<"U","p","d","a","t","e"," ">>,
      <<"S","t","o","c","k","s"," ">>,
      <<"p","r","i","c","e"," ">>,
      <<"M","a","r","k","e","t"," ">>,
      <<"A","S","I","A","n"," ">>,
      <<"T","e","c","h","n","o","l","o","g","y"," ">>,
      <<"h","o","l","d","i","n","g","s"," ">> }

RECURSIVE Join(_)
Join(ws) == IF ws = <<>> THEN <<>> ELSE Head(ws) \o Join(Tail(ws))

Queries ==
    {TestQuery} \cup
    { Join(ws) : ws \in UNION { [1..n -> Vocabulary] : n \in 0..MaxWords } }


-----------------------------------------------------------------------------
(* Query understanding: values *)

NoFilters == [keys |-> {}, regions |-> <<>>, sectors |-> <<>>, symbols |-> <<>>]

\* A parsed JSON value, or the mapping built by _understand_query.  type is the
\* Python type of the value; keys are the keys present when it is a dict; a key
\* that is absent holds a placeholder.  filters_type is the Python type of the
\* value under "filters".
Analysis(intent, tools, filters, time_period, metrics) ==
    [type |-> "dict",
     keys |-> {"intent", "tools", "filters", "time_period", "metrics"},
     intent |-> intent, tools |-> tools,
     filters_type |-> "dict", filters |-> filters,
     time_period |-> time_period, metrics |-> metrics]

NoValue ==
    [type |-> "none", keys |-> {}, intent |-> "", tools |-> <<>>,
     filters_type |-> "none", filters |-> NoFilters,
     time_period |-> "", metrics |-> <<>>]

\* the return value of the outer handler of _understand_query
DefaultAnalysis ==
    Analysis("portfolio", <<"portfolio", "stock">>, NoFilters,
             "latest", <<"price", "change">>)

\* JSON answers of the language model: the two worked examples of the prompt,
\* answers naming a symbol, an unknown intent, a filter that matches nothing,
\* and valid JSON of other shapes
JsonAnswers ==
    { Analysis("risk_exposure", <<"portfolio", "risk", "stock">>,
               [keys |-> {"regions", "sectors"}, regions |-> <<"Asia">>,
                sectors |-> <<"Technology">>, symbols |-> <<>>],
               "latest", <<"volatility", "concentration">>),
      Analysis("earnings_surprise", <<"earnings", "stock">>,
               [keys |-> {"sectors"}, regions |-> <<>>,
                sectors |-> <<"Technology">>, symbols |-> <<>>],
               "latest", <<"eps", "surprise">>),
      Analysis("news", <<"news">>,
               [keys |-> {"regions", "sectors", "symbols"}, regions |-> <<>>,
                sectors |-> <<>>, symbols |-> <<"AAPL">>],
               "latest", <<"headlines">>),
      Analysis("forecast", <<"stock">>, NoFilters, "latest", <<"price">>),
      \* a symbol the portfolios of the model do not hold
      Analysis("stock", <<"stock">>,
               [keys |-> {"symbols"}, regions |-> <<>>, sectors |-> <<>>,
                symbols |-> <<"JPM">>],
               "latest", <<"price">>),
      \* a sector no holding of the model's portfolios has
      Analysis("portfolio", <<"portfolio", "stock">>,
               [keys |-> {"sectors"}, regions |-> <<>>,
                sectors |-> <<"Healthcare">>, symbols |-> <<>>],
               "latest", <<"price">>),
      \* {"intent": "portfolio"}
      [NoValue EXCEPT !.type = "dict", !.keys = {"intent"}, !.intent = "portfolio"],
      \* {"intent": "news", "tools": ["news"], "filters": [], ...}
      [Analysis("news", <<"news">>, NoFilters, "latest", <<"headlines">>)
          EXCEPT !.filters_type = "list"],
      \* []
      [NoValue EXCEPT !.type = "list"],
      \* 42
      [NoValue EXCEPT !.type = "number"] }

\* Outcomes of `await chain.ainvoke(...)`: the call raises, or it returns a
\* response whose content is a text that is JSON (of value `value`) or is not,
\* or whose content is not a text at all (a list of content blocks).
LLMResponses ==
    { [kind |-> "raise",    parses |-> FALSE, value |-> NoValue],
      [kind |-> "not_text", parses |-> FALSE, value |-> NoValue],
      [kind |-> "text",     parses |-> FALSE, value |-> NoValue] }
    \cup { [kind |-> "text", parses |-> TRUE, value |-> v] : v \in JsonAnswers }

NoResponse == [kind |-> "none", parses |-> FALSE, value |-> NoValue]

-----------------------------------------------------------------------------
(* Query understanding: _understand_query *)

Ok(v)    == [exc |-> "none", value |-> v]
Raise(e) == [exc |-> e, value |-> NoValue]

\* json.loads(response.content)
json_loads(resp) ==
    IF resp.kind # "text" THEN Raise("TypeError")
    ELSE IF ~resp.parses THEN Raise("JSONDecodeError")
    ELSE Ok(resp.value)

RiskWords     == {W_risk, W_exposure, W_concentration}
EarningsWords == {W_earnings, W_surprise, W_report}
NewsWords     == {W_news, W_headline, W_update}
StockWords    == {W_stock, W_price, W_market}

\* the keyword chain with the news test ahead of the risk test
keyword_intent_news_first(query_lower) ==
    IF ContainsAny(query_lower, NewsWords)
    THEN [intent |-> "news", tools |-> <<"news">>]
    ELSE IF ContainsAny(query_lower, RiskWords)
    THEN [intent |-> "risk_exposure", tools |-> <<"portfolio", "risk", "stock">>]
    ELSE IF ContainsAny(query_lower, EarningsWords)
    THEN [intent |-> "earnings_surprise", tools |-> <<"earnings", "stock">>]
    ELSE IF ContainsAny(query_lower, StockWords)
    THEN [intent |-> "stock", tools |-> <<"stock">>]
    ELSE [intent |-> "portfolio", tools |-> <<"portfolio">>]

\* the if / elif chain that determines intent and tools
keyword_intent(query_lower) ==
    IF ContainsAny(query_lower, RiskWords)
    THEN [intent |-> "risk_exposure", tools |-> <<"portfolio", "risk", "stock">>]
    ELSE IF ContainsAny(query_lower, EarningsWords)
    THEN [intent |-> "earnings_surprise", tools |-> <<"earnings", "stock">>]
    ELSE IF ContainsAny(query_lower, NewsWords)
    THEN [intent |-> "news", tools |-> <<"news">>]
    ELSE IF ContainsAny(query_lower, StockWords)
    THEN [intent |-> "stock", tools |-> <<"stock">>]
    ELSE [intent |-> "portfolio", tools |-> <<"portfolio">>]

\* the handler of (json.JSONDecodeError, ValueError)
keyword_fallback(q) ==
    LET query_lower == Lower(q)
        it == keyword_intent(query_lower)
        filters ==
            [keys    |-> {"regions", "sectors", "symbols"},
             regions |-> IF Contains(query_lower, W_asia) THEN <<"Asia">> ELSE <<>>,
             sectors |-> IF Contains(query_lower, W_tech) THEN <<"Technology">> ELSE <<>>,
             symbols |-> <<>>]
    IN  Analysis(it.intent, it.tools, filters, "latest", <<"price", "change">>)

\* an outer handler that runs the keyword fallback for every exception
understand_query_fallback_on_any_error(q, resp) ==
    IF resp.kind = "raise" THEN Ok(keyword_fallback(q))
    ELSE LET parsed == json_loads(resp)
         IN  IF parsed.exc = "none" THEN Ok(parsed.value)
             ELSE Ok(keyword_fallback(q))

\* _understand_query: the outcome is a return (exc = "none") or an exception
\* that leaves the method
understand_query(q, resp) ==
    IF resp.kind = "raise"
    THEN Ok(DefaultAnalysis)                       \* except Exception
    ELSE LET parsed == json_loads(resp)
         IN  IF parsed.exc = "none" THEN Ok(parsed.value)
             ELSE IF parsed.exc \in {"JSONDecodeError", "ValueError"}
                  THEN Ok(keyword_fallback(q))
                  ELSE Ok(DefaultAnalysis)         \* except Exception

NoOutcome == [exc |-> "pending", value |-> NoValue]

-----------------------------------------------------------------------------
(* Holdings and portfolio snapshots *)

Symbols == {"AAPL", "TSM", "JPM"}

SectorOf == [s \in Symbols |-> IF s = "JPM" THEN "Financials" ELSE "Technology"]
RegionOf == [s \in Symbols |-> IF s = "TSM" THEN "Asia" ELSE "US"]

\* average prices of the holdings, in whole currency units
Prices == {0, 1}

\* the value of a key the holding does not have
Missing == "<missing>"

\* holdings as the fragments of the document store give them: with their
\* sector and region, without either (JSON fragments only), or without a symbol
LabelledHoldings ==
    { [symbol |-> s, shares |-> n, avg_price |-> p,
       sector |-> SectorOf[s], region |-> RegionOf[s]] :
         s \in Symbols, n \in 0..MaxShares, p \in Prices }

UnlabelledHoldings ==
    { [symbol |-> "JPM", shares |-> n, avg_price |-> p,
       sector |-> Missing, region |-> Missing] :
         n \in 0..MaxShares, p \in Prices }

SymbollessHoldings ==
    { [symbol |-> Missing, shares |-> 1, avg_price |-> 1,
       sector |-> "Technology", region |-> "US"] }

HoldingPool == LabelledHoldings \cup UnlabelledHoldings \cup SymbollessHoldings

Range(f) == { f[i] : i \in DOMAIN f }

\* holding["shares"] * holding["avg_price"]
Value(h) == h.shares * h.avg_price

RECURSIVE SumValues(_)
SumValues(hs) == IF hs = <<>> THEN 0 ELSE Value(Head(hs)) + SumValues(Tail(hs))

\* sum of the values of the holdings of hs that carry label l under key k
RECURSIVE SumWhere(_, _, _)
SumWhere(hs, k, l) ==
    IF hs = <<>> THEN 0
    ELSE (IF Head(hs)[k] = l THEN Value(Head(hs)) ELSE 0) + SumWhere(Tail(hs), k, l)

\* value / total * 100, kept exact
Percent(value, total) == [num |-> value * 100, den |-> total]

EmptyMap == [l \in {} |-> Percent(0, 1)]

Snapshot(symbols, holdings, region_allocations, sector_allocations, total_value) ==
    [symbols |-> symbols, holdings |-> holdings,
     region_allocations |-> region_allocations,
     sector_allocations |-> sector_allocations,
     total_value |-> total_value]

EmptySnapshot == Snapshot(<<>>, <<>>, EmptyMap, EmptyMap, 0)

SymbolsOf(hs) == [i \in 1..Len(hs) |-> hs[i].symbol]

-----------------------------------------------------------------------------
(* Portfolio retriever: PortfolioAgent.process *)

\* "cash": 50000.0, the default value
Cash == 50000

\* A hit of the document store is a fragment: empty text, JSON holding a
\* portfolio with a holdings list, JSON of another content, or malformed text
\* in which the holdings are found by the regular expression.
Chunk(kind, holdings) == [kind |-> kind, holdings |-> holdings]

ChunkHoldings == {<<>>} \cup { <<h>> : h \in HoldingPool }
                 \cup { << [symbol |-> "AAPL", shares |-> 1, avg_price |-> 1,
                            sector |-> "Technology", region |-> "US"],
                           [symbol |-> "TSM", shares |-> 1, avg_price |-> 1,
                            sector |-> "Technology", region |-> "Asia"] >> }

Chunks ==
    { Chunk("empty", <<>>), Chunk("json_other", <<>>) }
    \cup { Chunk(k, hs) : k \in {"json", "malformed"}, hs \in ChunkHoldings }

\* query_text: None when the search raised, the results otherwise
StoreResults ==
    { [ok |-> FALSE, hits |-> <<>>] }
    \cup { [ok |-> TRUE, hits |-> hs] :
              hs \in UNION { [1..n -> Chunks] : n \in 0..MaxHits } }

NoStoreResult == [ok |-> FALSE, hits |-> << Chunk("none", <<>>) >>]

\* the regular expression matches a holding that has its five fields in order
RegexMatches(h) ==
    h.symbol # Missing /\ h.sector # Missing /\ h.region # Missing

\* the holdings one hit contributes (json.loads, else re.finditer)
chunk_holdings(chunk) ==
    CASE chunk.kind = "json"      -> chunk.holdings
      [] chunk.kind = "malformed" -> SelectSeq(chunk.holdings, RegexMatches)
      [] OTHER                    -> <<>>

RECURSIVE extract_holdings(_)
extract_holdings(hits) ==
    IF hits = <<>> THEN <<>>
    ELSE chunk_holdings(Head(hits)) \o extract_holdings(Tail(hits))

\* the de-duplication loop without the test on seen_symbols
RECURSIVE unique_holdings_without_seen(_, _)
unique_holdings_without_seen(hs, seen_symbols) ==
    IF hs = <<>> THEN <<>>
    ELSE IF Head(hs).symbol # Missing
         THEN <<Head(hs)>> \o unique_holdings_without_seen(Tail(hs), seen_symbols)
         ELSE unique_holdings_without_seen(Tail(hs), seen_symbols)

\* the de-duplication loop: the first holding of a symbol is kept
RECURSIVE unique_holdings(_, _)
unique_holdings(hs, seen_symbols) ==
    IF hs = <<>> THEN <<>>
    ELSE LET symbol == Head(hs).symbol
         IN  IF symbol # Missing /\ symbol \notin seen_symbols
             THEN <<Head(hs)>> \o unique_holdings(Tail(hs), seen_symbols \cup {symbol})
             ELSE unique_holdings(Tail(hs), seen_symbols)

\* the percentages computed over the value of the holdings alone
allocations_of_holdings_value(holdings, k, total_value) ==
    LET labels == { h[k] : h \in { x \in Range(holdings) :
                                     x.symbol # Missing /\ x[k] # Missing } }
    IN  [l \in labels |-> Percent(SumWhere(holdings, k, l), total_value - Cash)]

\* region_allocations / sector_allocations: value / total_value * 100 for every
\* label of a holding that has a symbol
allocations(holdings, k, total_value) ==
    LET labels == { h[k] : h \in { x \in Range(holdings) :
                                     x.symbol # Missing /\ x[k] # Missing } }
    IN  [l \in labels |-> Percent(SumWhere(holdings, k, l), total_value)]

\* "Process portfolio data": totals, symbols and allocations of the holdings
structured_response(holdings, cash) ==
    LET total_value == cash + SumValues(holdings)
        symbols == SymbolsOf(SelectSeq(holdings, LAMBDA h : h.symbol # Missing))
    IN  Snapshot(symbols, holdings,
                 allocations(holdings, "region", total_value),
                 allocations(holdings, "sector", total_value),
                 total_value)

Envelope(success, data, error) == [success |-> success, data |-> data, error |-> error]

\* PortfolioAgent.process for one outcome of query_text
agent_process(results) ==
    IF ~results.ok
    THEN Envelope(TRUE, EmptySnapshot, "")                 \* `not results`
    ELSE LET holdings == extract_holdings(results.hits)
         IN  IF holdings = <<>>
             THEN Envelope(TRUE, EmptySnapshot, "")        \* no portfolio_data
             ELSE Envelope(TRUE,
                           structured_response(unique_holdings(holdings, {}), Cash),
                           "")

NoEnvelope == Envelope(FALSE, EmptySnapshot, "pending")

\* SmartOrchestrator._get_portfolio_data on the agent's envelope: the data, or
\* a mapping with an "error" entry
get_portfolio_data(result) ==
    IF ~result.success THEN [error |-> result.error, data |-> EmptySnapshot]
    ELSE IF result.data.symbols = <<>>
         THEN [error |-> "No portfolio data available", data |-> EmptySnapshot]
         ELSE [error |-> "", data |-> result.data]

-----------------------------------------------------------------------------
(* Portfolio filter and allocator: _filter_portfolio_data *)

FilterSet(regions, sectors, symbols) ==
    [keys |-> {"regions", "sectors", "symbols"},
     regions |-> regions, sectors |-> sectors, symbols |-> symbols]

\* the filter sets tried: every dimension empty or not, symbols held or not
FilterSets ==
    { FilterSet(r, c, y) :
        r \in {<<>>, <<"Asia">>, <<"US">>, <<"Asia", "US">>},
        c \in {<<>>, <<"Technology">>, <<"Financials">>},
        y \in {<<>>, <<"AAPL">>, <<"TSM">>, <<"JPM">>, <<"AAPL", "JPM">>} }
    \cup {NoFilters}

NoFilterSet == [keys |-> {"pending"}, regions |-> <<>>, sectors |-> <<>>, symbols |-> <<>>]

\* the tests with an empty dimension read as "nothing is allowed"
filter_step_empty_excludes(holding, regions, sectors, symbols) ==
    IF holding.symbol \notin Range(symbols) THEN "continue"
    ELSE IF holding.region = Missing THEN "KeyError"
    ELSE IF holding.region \notin Range(regions) THEN "continue"
    ELSE IF holding.sector = Missing THEN "KeyError"
    ELSE IF holding.sector \notin Range(sectors) THEN "continue"
    ELSE "append"

\* the three tests of the filter loop for one holding: "continue", "append",
\* or the KeyError of holding["region"] / holding["sector"]
filter_step(holding, regions, sectors, symbols) ==
    IF symbols # <<>> /\ holding.symbol \notin Range(symbols) THEN "continue"
    ELSE IF regions # <<>> /\ holding.region = Missing THEN "KeyError"
    ELSE IF regions # <<>> /\ holding.region \notin Range(regions) THEN "continue"
    ELSE IF sectors # <<>> /\ holding.sector = Missing THEN "KeyError"
    ELSE IF sectors # <<>> /\ holding.sector \notin Range(sectors) THEN "continue"
    ELSE "append"

\* the allocation loop over the filtered holdings: holding["region"] raises
\* KeyError, value / total_value raises ZeroDivisionError
allocation_loop(holdings, total_value) ==
    LET unlabelled(h) == h.region = Missing \/ h.sector = Missing
    IN  IF holdings = <<>>
        THEN Ok([region_allocations |-> EmptyMap, sector_allocations |-> EmptyMap])
        ELSE IF total_value = 0
        THEN (IF unlabelled(Head(holdings)) THEN Raise("KeyError")
                                            ELSE Raise("ZeroDivisionError"))
        ELSE IF \E i \in 1..Len(holdings) : unlabelled(holdings[i])
        THEN Raise("KeyError")
        ELSE Ok([region_allocations |->
                     [l \in { h.region : h \in Range(holdings) } |->
                         Percent(SumWhere(holdings, "region", l), total_value)],
                 sector_allocations |->
                     [l \in { h.sector : h \in Range(holdings) } |->
                         Percent(SumWhere(holdings, "sector", l), total_value)]])

\* the filter loop without the symbol test
filter_loop_ignoring_symbols(holdings, f) ==
    LET step(h) == filter_step(h, f.regions, f.sectors, <<>>)
    IN  IF \E i \in 1..Len(holdings) : step(holdings[i]) = "KeyError"
        THEN Raise("KeyError")
        ELSE [exc |-> "none",
              value |-> SelectSeq(holdings, LAMBDA h : step(h) = "append")]

\* the filter loop: the holdings appended, in order, or the KeyError
filter_loop(holdings, f) ==
    LET step(h) == filter_step(h, f.regions, f.sectors, f.symbols)
    IN  IF \E i \in 1..Len(holdings) : step(holdings[i]) = "KeyError"
        THEN Raise("KeyError")
        ELSE [exc |-> "none",
              value |-> SelectSeq(holdings, LAMBDA h : step(h) = "append")]

\* _filter_portfolio_data: every exception of the body ends in the handler
\* that returns portfolio_data
filter_portfolio_data(pd, f) ==
    LET looped == filter_loop(pd.holdings, f)
    IN  IF looped.exc # "none" THEN pd
        ELSE LET kept == looped.value
                 total_value == SumValues(kept)
                 allocs == allocation_loop(kept, total_value)
             IN  IF allocs.exc # "none" THEN pd
                 ELSE Snapshot(SymbolsOf(kept), kept,
                               allocs.value.region_allocations,
                               allocs.value.sector_allocations,
                               total_value)

-----------------------------------------------------------------------------
(* Tool adapters: EODHDTool.invoke, EarningsSurpriseTool.execute,          *)
(* CompanyMetadataTool.execute and NewsTool.execute                        *)

\* Python's None where a text is expected
None == "None"

\* payload of an envelope: what the adapter formatted from the provider's data
Payload(kind, source, historical_data) ==
    [kind |-> kind, source |-> source, historical_data |-> historical_data]

NoData == Payload("None", "", <<>>)

\* outcome of one adapter call: the envelope it returned, or the exception
\* that left the call
Returned(success, data, error) ==
    [exc |-> "none", success |-> success, data |-> data, error |-> error]
Raised(e) == [exc |-> e, success |-> FALSE, data |-> NoData, error |-> None]

NoToolResult == [exc |-> "pending", success |-> FALSE, data |-> NoData, error |-> None]

\* the ticker arguments: empty, or a symbol
Tickers == {"", "AAPL", "TSM"}

\* what a provider did when it was asked
ProviderOutcome(kind, closes) == [kind |-> kind, closes |-> closes]

\* closing prices of the rows a price provider returns
CloseSeries == { <<>>, <<100>>, <<100, 100>>, <<100, 105, 98, 102>> }

\* yfinance Ticker(...).history(...): raises, or returns a frame of rows
HistoryOutcomes ==
    { ProviderOutcome("raise", <<>>) }
    \cup { ProviderOutcome("frame", c) : c \in CloseSeries }

\* body of the try block of EODHDTool.invoke
eodhd_try(ticker, outcome) ==
    IF ticker = "" THEN Returned(FALSE, NoData, "No ticker provided")
    ELSE IF outcome.kind = "raise" THEN Raised("Exception")
    ELSE IF outcome.closes = <<>>                          \* eod_data.empty
    THEN Returned(FALSE, NoData, "No EOD data found")
    ELSE Returned(TRUE, Payload("stock", "yfinance", outcome.closes), None)

\* EODHDTool.invoke without its exception handler
eodhd_invoke_unguarded(ticker, outcome) == eodhd_try(ticker, outcome)

\* EODHDTool.invoke(params) with params["ticker"] = ticker
eodhd_invoke(ticker, outcome) ==
    LET r == eodhd_try(ticker, outcome)
    IN  IF r.exc # "none" THEN Returned(FALSE, NoData, r.exc) ELSE r

\* yfinance earnings_history: raises, is None, is an empty frame, or has rows
EarningsOutcomes ==
    { ProviderOutcome(k, <<>>) : k \in {"raise", "none", "empty", "rows"} }

\* body of the try block of EarningsSurpriseTool.execute
earnings_try(ticker, outcome) ==
    IF ticker = "" THEN Returned(FALSE, NoData, "Ticker symbol is required")
    ELSE IF outcome.kind = "raise" THEN Raised("Exception")
    ELSE IF outcome.kind = "rows"
    THEN Returned(TRUE, Payload("earnings", "yfinance", <<>>), None)
    ELSE Returned(FALSE, NoData, "No earnings data available")

\* EarningsSurpriseTool.execute(ticker)
earnings_execute(ticker, outcome) ==
    LET r == earnings_try(ticker, outcome)
    IN  IF r.exc # "none" THEN Returned(FALSE, NoData, r.exc) ELSE r

\* yfinance Ticker(...).info: raises, or is a mapping
MetadataOutcomes == { ProviderOutcome(k, <<>>) : k \in {"raise", "info"} }

\* body of the try block of CompanyMetadataTool.execute
metadata_try(ticker, outcome) ==
    IF ticker = "" THEN Returned(FALSE, NoData, "Ticker symbol is required")
    ELSE IF outcome.kind = "raise" THEN Raised("Exception")
    ELSE Returned(TRUE, Payload("metadata", "yfinance", <<>>), None)

\* CompanyMetadataTool.execute(ticker)
metadata_execute(ticker, outcome) ==
    LET r == metadata_try(ticker, outcome)
    IN  IF r.exc # "none" THEN Returned(FALSE, NoData, r.exc) ELSE r

\* NewsTool: the symbol lists handed to execute
NewsSymbolLists ==
    { <<>>, <<"AAPL">>, <<"TSM">>, <<"AAPL", "TSM">>, <<"TSM", "AAPL">> }

\* the primary request (Marketaux): requests.get raises, answers with a status
\* other than 200, answers 200 without articles, or answers 200 with articles
PrimaryOutcomes ==
    { ProviderOutcome(k, <<>>) : k \in {"raise", "status_error", "empty", "data"} }

\* one company_news request of the secondary source (Finnhub)
SecondaryOutcomes == {"raise", "none", "news"}

SecondaryRuns(symbols) == [1..Len(symbols) -> SecondaryOutcomes]

\* the Finnhub loop from symbol i on: the requests made, whether one raised,
\* and whether any returned news
RECURSIVE finnhub_loop(_, _, _)
finnhub_loop(symbols, outcomes, i) ==
    IF i > Len(symbols) THEN [calls |-> <<>>, raised |-> FALSE, any |-> FALSE]
    ELSE IF outcomes[i] = "raise"
    THEN [calls |-> << <<"finnhub", symbols[i]>> >>, raised |-> TRUE, any |-> FALSE]
    ELSE LET rest == finnhub_loop(symbols, outcomes, i + 1)
         IN  [calls  |-> << <<"finnhub", symbols[i]>> >> \o rest.calls,
              raised |-> rest.raised,
              any    |-> rest.any \/ outcomes[i] = "news"]

AllSourcesFailed == "Failed to fetch news data from all sources"

\* NewsTool.execute(symbols) without the fallback to the secondary source
news_execute_without_fallback(symbols, primary, configured, outcomes) ==
    IF symbols = <<>>
    THEN [result |-> Returned(FALSE, NoData, "At least one symbol is required"),
          calls |-> <<>>]
    ELSE IF primary.kind = "data"
    THEN [result |-> Returned(TRUE, Payload("news", "marketaux", <<>>), None),
          calls |-> << <<"marketaux", "all">> >>]
    ELSE [result |-> Returned(FALSE, NoData, AllSourcesFailed),
          calls |-> << <<"marketaux", "all">> >>]

\* NewsTool.execute(symbols): the envelope returned and the requests made, in
\* order, for the outcome of each request
news_execute(symbols, primary, configured, outcomes) ==
    IF symbols = <<>>
    THEN [result |-> Returned(FALSE, NoData, "At least one symbol is required"),
          calls |-> <<>>]
    ELSE IF primary.kind = "data"
    THEN [result |-> Returned(TRUE, Payload("news", "marketaux", <<>>), None),
          calls |-> << <<"marketaux", "all">> >>]
    ELSE IF ~configured                                  \* self.finnhub_client is None
    THEN [result |-> Returned(FALSE, NoData, AllSourcesFailed),
          calls |-> << <<"marketaux", "all">> >>]
    ELSE LET loop == finnhub_loop(symbols, outcomes, 1)
         IN  [result |-> IF ~loop.raised /\ loop.any
                         THEN Returned(TRUE, Payload("news", "finnhub", <<>>), None)
                         ELSE Returned(FALSE, NoData, AllSourcesFailed),
              calls |-> << <<"marketaux", "all">> >> \o loop.calls]

\* a call of an adapter: which adapter, its argument, and what the provider did
ToolCall(tool, ticker, symbols, outcome, configured, secondary) ==
    [tool |-> tool, ticker |-> ticker, symbols |-> symbols, outcome |-> outcome,
     configured |-> configured, secondary |-> secondary]

NoToolCall == ToolCall("none", "", <<>>, ProviderOutcome("none", <<>>), FALSE, <<>>)

-----------------------------------------------------------------------------
(* Risk estimator: SmartOrchestrator._calculate_portfolio_risk              *)
(*                                                                         *)
(* A daily return is kept in units of 1/10000, rounded to the nearest unit. *)
(* The volatility test is decided on squares, so that no root is taken:     *)
(* std(r) * sqrt(252) > 0.3  iff  252 * var(r) > 0.09, and with n returns   *)
(* var(r) = (n * sum(r^2) - sum(r)^2) / n^2, numpy.std dividing by n.       *)

\* an entry of a mapping that keeps the order of insertion
Item(key, value) == [key |-> key, value |-> value]

Scale == 10000
TradingDays == 252
ThresholdTenths == 3

\* (curr_close - prev_close) / prev_close
daily_return(prev_close, curr_close) ==
    ((curr_close - prev_close) * 2 * Scale + prev_close) \div (2 * prev_close)

\* the returns list of a series of closes
returns_of(closes) ==
    [i \in 1..(Len(closes) - 1) |-> daily_return(closes[i], closes[i + 1])]

RECURSIVE SumSeq(_)
SumSeq(s) == IF s = <<>> THEN 0 ELSE Head(s) + SumSeq(Tail(s))

Squares(s) == [i \in 1..Len(s) |-> s[i] * s[i]]

\* n^2 times the population variance of the returns (numpy.std divides by n)
np_var_n2(returns) ==
    Len(returns) * SumSeq(Squares(returns)) - SumSeq(returns) * SumSeq(returns)

\* the test on the daily standard deviation, without the factor sqrt(252)
exceeds_threshold_unannualised(returns) ==
    np_var_n2(returns) >
        ThresholdTenths * ThresholdTenths * Len(returns) * Len(returns)
          * (Scale \div 10) * (Scale \div 10)

\* np.std(returns) * np.sqrt(252) > 0.3
exceeds_threshold(returns) ==
    np_var_n2(returns) >
        (ThresholdTenths * ThresholdTenths * Len(returns) * Len(returns)
           * (Scale \div 10) * (Scale \div 10)) \div TradingDays

\* the body of the loop for one entry of stock_data: the entry is passed over,
\* its volatility is computed and is high or low, or the computation raises
volatility_step(data) ==
    IF data.kind # "stock" THEN "skip"            \* no dict with historical_data
    ELSE IF Len(data.historical_data) <= 1 THEN "skip"
    ELSE IF \E i \in 1..(Len(data.historical_data) - 1) :
               data.historical_data[i] = 0
    THEN "exception"                              \* division by a zero close
    ELSE IF exceeds_threshold(returns_of(data.historical_data))
    THEN "high" ELSE "low"

\* the loop over stock_data.items() when it ends at the first entry passed over
RECURSIVE high_risk_stocks_stop_at_skip(_, _)
high_risk_stocks_stop_at_skip(stock, i) ==
    IF i > Len(stock) THEN <<>>
    ELSE IF volatility_step(stock[i].value) = "skip" THEN <<>>
    ELSE (IF volatility_step(stock[i].value) = "high"
          THEN <<stock[i].key>> ELSE <<>>)
         \o high_risk_stocks_stop_at_skip(stock, i + 1)

\* the loop over stock_data.items(): the symbols appended to high_risk_stocks
RECURSIVE high_risk_stocks(_, _)
high_risk_stocks(stock, i) ==
    IF i > Len(stock) THEN <<>>
    ELSE (IF volatility_step(stock[i].value) = "high"
          THEN <<stock[i].key>> ELSE <<>>)
         \o high_risk_stocks(stock, i + 1)

RiskMetrics(err, sector_concentration, region_concentration, total_value, high) ==
    [error |-> err, sector_concentration |-> sector_concentration,
     region_concentration |-> region_concentration,
     total_value |-> total_value, volatility |-> 0, high_risk_stocks |-> high]

NoRisk == RiskMetrics("pending", EmptyMap, EmptyMap, 0, <<>>)

\* _calculate_portfolio_risk(portfolio_data, stock_data)
calculate_portfolio_risk(pd, stock) ==
    RiskMetrics(None, pd.sector_allocations, pd.region_allocations,
                pd.total_value, high_risk_stocks(stock, 1))

\* closing prices, and the series of them a provider may have returned
ClosePrices == {0, 98, 100, 101, 102, 105}

Histories == UNION { [1..n -> ClosePrices] : n \in 0..MaxHistory }

\* what stock_data may hold under a key: the adapter's data with its
\* historical_data, a mapping without that key, or a text
FirstEntries ==
    { Payload("stock", "yfinance", h) : h \in Histories }
    \cup { Payload("other", "", <<>>), Payload("text", "", <<>>) }

SecondEntries ==
    { Payload("stock", "yfinance", h) :
         h \in { <<100>>, <<100, 100, 100>>, <<100, 0, 100>>,
                 <<100, 105, 98, 102>> } }
    \cup { Payload("other", "", <<>>), Payload("text", "", <<>>) }

StockData ==
    { << Item("AAPL", a) >> : a \in FirstEntries }
    \cup { << Item("AAPL", a), Item("TSM", t) >> :
              a \in FirstEntries, t \in SecondEntries }

\* the filtered portfolios handed to the estimator
RiskPortfolios ==
    { EmptySnapshot,
      filter_portfolio_data(
          structured_response(
              << [symbol |-> "AAPL", shares |-> 1, avg_price |-> 1,
                  sector |-> "Technology", region |-> "US"],
                 [symbol |-> "TSM", shares |-> 1, avg_price |-> 1,
                  sector |-> "Technology", region |-> "Asia"] >>, Cash),
          NoFilters) }

-----------------------------------------------------------------------------
(* Per-symbol fetch loops: _get_stock_data, _get_earnings_data, _get_news   *)

\* the methods each tool object of the orchestrator has
ToolMethods ==
    [eodhd_tool             |-> {"invoke"},
     earnings_surprise_tool |-> {"execute", "validate_params", "format_result"},
     metadata_tool          |-> {"execute", "validate_params", "format_result"},
     news_tool              |-> {"execute", "validate_params", "format_result"}]

\* one request to a provider: the tool category, the symbol, what the provider did
Call(category, symbol, outcome) ==
    [category |-> category, symbol |-> symbol, outcome |-> outcome]

\* results[key] = value
SetItem(items, key, value) ==
    IF \E i \in 1..Len(items) : items[i].key = key
    THEN [i \in 1..Len(items) |->
             IF items[i].key = key THEN Item(key, value) ELSE items[i]]
    ELSE Append(items, Item(key, value))

\* {"error": str(e)}
ErrorMapping(e) == << Item("error", Payload("text", e, <<>>)) >>

\* what a fetch loop leaves: the aggregate and the requests made, in order
Fetched(aggregate, requests) == [aggregate |-> aggregate, calls |-> requests]

\* the loop `for symbol in symbols` of _get_stock_data from position i on
RECURSIVE stock_loop(_, _, _, _)
stock_loop(syms, outcomes, i, results) ==
    IF i > Len(syms) THEN Fetched(results, <<>>)
    ELSE LET result == eodhd_invoke(syms[i], outcomes[i])
             rest == stock_loop(syms, outcomes, i + 1,
                        IF ~result.success \/ result.data = NoData
                        THEN results                              \* continue
                        ELSE SetItem(results, syms[i], result.data))
         IN  Fetched(rest.aggregate,
                     <<Call("stock", syms[i], outcomes[i])>> \o rest.calls)

\* _get_stock_data(symbols)
get_stock_data(syms, outcomes) ==
    IF syms # <<>> /\ "invoke" \notin ToolMethods.eodhd_tool
    THEN Fetched(ErrorMapping("AttributeError"), <<>>)
    ELSE stock_loop(syms, outcomes, 1, <<>>)

\* the loop `for symbol in symbols` of _get_earnings_data from position i on
RECURSIVE earnings_loop(_, _, _, _)
earnings_loop(syms, outcomes, i, results) ==
    IF i > Len(syms) THEN Fetched(results, <<>>)
    ELSE LET result == earnings_execute(syms[i], outcomes[i])
             rest == earnings_loop(syms, outcomes, i + 1,
                        IF ~result.success
                        THEN results                              \* continue
                        ELSE SetItem(results, syms[i], result.data))
         IN  Fetched(rest.aggregate,
                     <<Call("earnings", syms[i], outcomes[i])>> \o rest.calls)

\* _get_earnings_data(symbols)
get_earnings_data(syms, outcomes) ==
    IF syms # <<>> /\ "execute" \notin ToolMethods.earnings_surprise_tool
    THEN Fetched(ErrorMapping("AttributeError"), <<>>)
    ELSE earnings_loop(syms, outcomes, 1, <<>>)

\* what the news provider does when asked about one symbol
NewsOutcomes ==
    { ProviderOutcome(k, <<>>) : k \in {"raise", "empty", "data"} }

\* the loop `for symbol in symbols` of _get_news from position i on, were the
\* call of line 348 to reach the provider
RECURSIVE news_loop(_, _, _, _)
news_loop(syms, outcomes, i, results) ==
    IF i > Len(syms) THEN Fetched(results, <<>>)
    ELSE LET rest == news_loop(syms, outcomes, i + 1,
                        IF outcomes[i].kind # "data"
                        THEN results                              \* continue
                        ELSE SetItem(results, syms[i],
                                     Payload("news", "marketaux", <<>>)))
         IN  Fetched(rest.aggregate,
                     <<Call("news", syms[i], outcomes[i])>> \o rest.calls)

\* _get_news(symbols): self.news_tool.invoke(...) is evaluated for the first
\* symbol; a tool object without that method raises AttributeError there, and
\* the handler returns {"error": str(e)}
get_news(syms, outcomes) ==
    IF syms # <<>> /\ "invoke" \notin ToolMethods.news_tool
    THEN Fetched(ErrorMapping("AttributeError"), <<>>)
    ELSE news_loop(syms, outcomes, 1, <<>>)

-----------------------------------------------------------------------------
(* Query processing: process_query, WorkflowManager.process and            *)
(* SmartOrchestrator.process                                               *)

\* a fixed text of the program, as a text of one fragment
Msg(s) == <<s>>

NoneText == Msg(None)

InvalidQueryMessage == Msg("Please provide a valid query.")
NoResultGenerated   == Msg("Query processed but no result generated.")
ProcessApology ==
    Msg("I apologize, but I encountered an error while processing your query.")
AnalysisApology ==
    Msg("I apologize, but I'm having trouble analyzing your portfolio data right now.")

\* a mapping returned to the caller: the keys it has, and the values under
\* "success", "error" and "final_result" (placeholders where the key is absent)
Result(keys, success, error, final_result) ==
    [type |-> "dict", keys |-> keys, success |-> success, error |-> error,
     final_result |-> final_result]

NoResult == Result({}, FALSE, "pending", NoneText)

\* the mapping returned by the handler of process
ProcessFailure(e) ==
    Result({"success", "error", "final_result"}, FALSE, e, ProcessApology)

\* return {"error": ...}
ProcessError(e) == Result({"error"}, FALSE, e, NoneText)

\* what the UI hands to process_query: a text, or something that is no text
Request(type, text) == [type |-> type, text |-> text]

Requests ==
    { Request("NoneType", <<>>), Request("str", <<>>),
      Request("str", <<" ">>), Request("str", <<" ">> \o W_news),
      Request("str", TestQuery) }

NoRequest == Request("none", <<>>)

Whitespace == {" ", "\t", "\n"}

RECURSIVE LStrip(_)
LStrip(s) == IF s # <<>> /\ Head(s) \in Whitespace THEN LStrip(Tail(s)) ELSE s

RECURSIVE RStrip(_)
RStrip(s) ==
    IF s # <<>> /\ s[Len(s)] \in Whitespace
    THEN RStrip(SubSeq(s, 1, Len(s) - 1)) ELSE s

\* str.strip()
Strip(s) == RStrip(LStrip(s))

\* the test `not query or not isinstance(query, str)` of process_query
invalid_query(req) == req.type # "str" \/ req.text = <<>>

\* the values of the enumeration Intent
Intents ==
    {"risk_exposure", "earnings_surprise", "portfolio", "news", "metadata",
     "stock", "unknown"}

\* query_analysis.get("intent", "unknown")
IntentOfAnalysis(qa) == IF "intent" \in qa.keys THEN qa.intent ELSE "unknown"

\* a conversion that takes every text for a member
Intent_unchecked(value) == [exc |-> "none", member |-> value]

\* Intent(value): the member with that value, or ValueError
Intent(value) ==
    IF value \in Intents THEN [exc |-> "none", member |-> value]
    ELSE [exc |-> "ValueError", member |-> "unknown"]

\* _format_results(intent, data) with a header ahead of the analysis
format_results_with_header(intent) == Msg("Results: ")

\* _format_results(intent, data)
format_results(intent) == <<>>

\* the texts the language model composes
CompositionTexts == { Msg("Your portfolio looks balanced."), <<>> }

\* chain.ainvoke of _analyze_with_llm: raises, or returns a response
ComposeOutcomes ==
    { [kind |-> "raise", content |-> <<>>] }
    \cup { [kind |-> "text", content |-> t] : t \in CompositionTexts }

NoComposition == [kind |-> "none", content |-> <<>>]

\* _analyze_with_llm with a handler that returns the empty text
analyze_with_llm_empty_on_error(outcome) ==
    IF outcome.kind = "raise" THEN <<>> ELSE outcome.content

\* _analyze_with_llm(data, intent) for one outcome of the model call
analyze_with_llm(outcome) ==
    IF outcome.kind = "raise" THEN AnalysisApology ELSE outcome.content

\* WorkflowManager.process without the default for a missing final_result
workflow_process_without_default(result) == result

\* WorkflowManager.process on the mapping returned by the orchestrator
workflow_process(result) ==
    IF "final_result" \notin result.keys
    THEN [result EXCEPT !.keys = @ \cup {"final_result"},
                        !.final_result = NoResultGenerated]
    ELSE result

\* the symbols of the filtered portfolio, whatever the filters name
symbols_to_process_held_only(filters, filtered) == filtered.symbols

\* process: query_analysis["filters"].get("symbols") or
\* filtered_portfolio.get("symbols", [])
symbols_to_process(filters, filtered) ==
    IF filters.symbols # <<>> THEN filters.symbols ELSE filtered.symbols

\* outcomes of query_text seen by the retriever while a query is processed
ProcessStoreResults ==
    { [ok |-> FALSE, hits |-> <<>>],
      [ok |-> TRUE, hits |-> <<>>],
      [ok |-> TRUE, hits |-> << Chunk("json_other", <<>>) >>],
      [ok |-> TRUE,
       hits |-> << Chunk("json",
                     << [symbol |-> "AAPL", shares |-> 1, avg_price |-> 1,
                         sector |-> "Technology", region |-> "US"],
                        [symbol |-> "TSM", shares |-> 1, avg_price |-> 1,
                         sector |-> "Technology", region |-> "Asia"] >>) >>] }

\* the envelope of the retriever's own handler (an exception inside process)
AgentFailure == Envelope(FALSE, EmptySnapshot, "Exception")

\* outcomes of the price provider while a query is processed
ProcessHistoryOutcomes ==
    { ProviderOutcome("raise", <<>>), ProviderOutcome("frame", <<>>),
      ProviderOutcome("frame", <<100>>),
      ProviderOutcome("frame", <<100, 105, 98, 102>>) }

ProcessEarningsOutcomes ==
    { ProviderOutcome(k, <<>>) : k \in {"raise", "none", "rows"} }

-----------------------------------------------------------------------------
(* External calls of one query, one at a time: the awaits of process and    *)
(* the blocking calls of the fetch loops                                     *)

\* an external call that was issued and has not returned: its place in the
\* log of calls, and whether the collaborator ever answers it
Pending(category, symbol, index, returns) ==
    [category |-> category, symbol |-> symbol, index |-> index,
     returns |-> returns]

\* the outcome logged for a call until it returns
Unanswered == ProviderOutcome("pending", <<>>)

\* a loop that asks for every remaining symbol before it waits for an answer
next_requests_fan_out(syms, done) == SubSeq(syms, done + 1, Len(syms))

\* `for symbol in symbols: result = tool.invoke(...)`: with `done` symbols
\* behind it the loop asks for the next symbol, and goes on when the call is back
next_requests(syms, done) == << syms[done + 1] >>

\* a loop that asks once more for a symbol whose call failed
resume_at_retrying(done, failed) == IF failed THEN done - 1 ELSE done

\* `continue` and the end of the loop body: with `done` symbols asked for, the
\* loop goes on with the next one whether the call failed or not
resume_at(done, failed) == done

\* a wait that gives up on a call that does not return
resumes_after_timeout(call) == TRUE

\* `await` and the blocking calls: the statement after the call runs when
\* the call has returned or raised, and not before
resumes(call) == call.returns

\* the outcomes of the provider of a category, and the aggregate it fills
OutcomesOf(category) ==
    IF category = "stock" THEN ProcessHistoryOutcomes
                          ELSE ProcessEarningsOutcomes

\* the adapter of the category answered the call with success and data
Answered(c) ==
    IF c.category = "stock"
    THEN LET result == eodhd_invoke(c.symbol, c.outcome)
         IN  result.success /\ result.data # NoData
    ELSE earnings_execute(c.symbol, c.outcome).success

\* one pass of the loop body of _get_stock_data / _get_earnings_data
loop_body(category, results, symbol, outcome) ==
    IF category = "stock"
    THEN stock_loop(<<symbol>>, <<outcome>>, 1, results).aggregate
    ELSE earnings_loop(<<symbol>>, <<outcome>>, 1, results).aggregate

-----------------------------------------------------------------------------
(* Speech services and the UI: TTSService, STTService and main             *)

\* GOOGLE_APPLICATION_CREDENTIALS_JSON: not set, set to a text that is no
\* JSON, or set to JSON
Credentials == {"unset", "invalid_json", "json"}

\* construction of a cloud client: it succeeds or raises
ClientOutcomes == {"ok", "raise"}

\* TTSService.__init__: the service holds a client, or the exception that
\* leaves the constructor
tts_init(creds, client) ==
    IF creds = "unset" THEN "ValueError"
    ELSE IF creds = "invalid_json" THEN "JSONDecodeError"
    ELSE IF client = "raise" THEN "Exception"
    ELSE "client"

\* STTService.__init__ and _initialize: whether speech_client is set
stt_initialize(creds, client) == creds = "json" /\ client = "ok"

\* what the recognizer does with a recording
RecognizeOutcomes == {"raise", "silence", "words"}

NoTranscript == None

\* STTService.transcribe_audio(audio_file): the transcript, or None
transcribe_audio(speech_client, outcome) ==
    IF ~speech_client THEN NoTranscript
    ELSE IF outcome = "raise" THEN NoTranscript
    ELSE IF outcome = "silence" THEN ""
    ELSE "what is my portfolio"

\* TTSService.text_to_speech(text): the audio, or the exception it re-raises
text_to_speech(outcome) == IF outcome = "raise" THEN "Exception" ELSE "audio"

\* final_result texts shown by the UI: a text, or the empty text
ResponseTexts == {"", "answer"}

\* main: what follows `st.markdown(response_text)` for one answer: the message
\* added to the chat history, if any, and the notice shown
speak(voice, response_text, outcome) ==
    IF ~(voice /\ response_text # "")
    THEN [added |-> <<>>, notice |-> "none"]
    ELSE IF text_to_speech(outcome) = "audio"
    THEN [added |-> <<"assistant_audio">>, notice |-> "none"]
    ELSE [added |-> <<"assistant">>, notice |-> "speech_error"]

-----------------------------------------------------------------------------
(* The orchestrator object: SmartOrchestrator.__init__ *)

\* the fields __init__ sets that are data: the result cache and its TTL
\* (the other fields are the model client, the agent and the tools)
NewOrchestrator == [_cache |-> <<>>, _cache_ttl |-> 3600]

-----------------------------------------------------------------------------
(* A whole call of SmartOrchestrator.process on the orchestrator object     *)

\* what the collaborators answer during one query: the language model to
\* query understanding, the retriever, the providers (by position in the
\* symbols list), and the language model to the composition
Inputs(q, resp, env, stock, earnings, news, compose) ==
    [query |-> q, resp |-> resp, env |-> env, stock |-> stock,
     earnings |-> earnings, news |-> news, compose |-> compose]

\* data["stock"], data["earnings"], data["news"] and data["risk"]
Collected(stock, earnings, news, risk) ==
    [stock |-> stock, earnings |-> earnings, news |-> news, risk |-> risk]

NothingCollected == Collected(<<>>, <<>>, <<>>, NoRisk)

\* what a call of process leaves: the mapping returned, the data collected,
\* and the fields of the orchestrator
Processed(result, data, self) == [result |-> result, data |-> data, self |-> self]

HasTool(qa, tool) == \E i \in 1..Len(qa.tools) : qa.tools[i] = tool

\* process from `Collect data based on required tools` on
process_collect(self, qa, filtered, syms, inp) ==
    LET stock == IF HasTool(qa, "stock")
                 THEN get_stock_data(syms, inp.stock).aggregate ELSE <<>>
        earnings == IF HasTool(qa, "earnings")
                    THEN get_earnings_data(syms, inp.earnings).aggregate ELSE <<>>
        news == IF HasTool(qa, "news")
                THEN get_news(syms, inp.news).aggregate ELSE <<>>
        risk == IF HasTool(qa, "risk")
                THEN calculate_portfolio_risk(filtered, stock) ELSE NoRisk
        data == Collected(stock, earnings, news, risk)
        intent == Intent(IntentOfAnalysis(qa))
    IN  IF intent.exc # "none"
        THEN Processed(ProcessFailure(intent.exc), data, self)
        ELSE Processed(Result({"success", "data", "final_result"}, TRUE, None,
                              format_results(intent.member)
                                 \o analyze_with_llm(inp.compose)),
                       data, self)

\* the statements of SmartOrchestrator.process(query), from the first to the
\* return: none of them, nor of a helper, reads or assigns self._cache or
\* self._cache_ttl
process_steps(self, inp) ==
    LET qa == understand_query(inp.query, inp.resp).value
        got == get_portfolio_data(inp.env)
    IN  IF got.error # ""
        THEN Processed(ProcessError(got.error), NothingCollected, self)
        ELSE IF qa.type # "dict"
        THEN Processed(ProcessFailure("TypeError"), NothingCollected, self)
        ELSE IF "filters" \notin qa.keys
        THEN Processed(ProcessFailure("KeyError"), NothingCollected, self)
        ELSE IF qa.filters_type # "dict"
        THEN Processed(ProcessFailure("AttributeError"), NothingCollected, self)
        ELSE LET filtered == filter_portfolio_data(got.data, qa.filters)
                 syms == symbols_to_process(qa.filters, filtered)
             IN  IF syms = <<>>
                 THEN Processed(ProcessError("No symbols found to process"),
                                NothingCollected, self)
                 ELSE IF "tools" \notin qa.keys
                 THEN Processed(ProcessFailure("KeyError"), NothingCollected, self)
                 ELSE process_collect(self, qa, filtered, syms, inp)

\* process with a result cache keyed by the query text
process_memoised(self, inp) ==
    IF \E i \in 1..Len(self._cache) : self._cache[i].key = inp.query
    THEN LET i == CHOOSE k \in 1..Len(self._cache) : self._cache[k].key = inp.query
         IN  Processed(self._cache[i].value.result, self._cache[i].value.data, self)
    ELSE LET out == process_steps(self, inp)
         IN  Processed(out.result, out.data,
                       [self EXCEPT !._cache =
                           Append(@, Item(inp.query,
                                          [result |-> out.result,
                                           data |-> out.data]))])

\* SmartOrchestrator.process(query) on the orchestrator `self`
process(self, inp) == process_steps(self, inp)

-----------------------------------------------------------------------------
(* The embedding service and the document store                             *)

\* batch_upsert_text: batch_size: int = 200 (embed_text passes no batch size)
BatchSize == 200

\* the fields EmbeddingService.__init__ reads from the configuration
Service(chunk_size, chunk_overlap) ==
    [chunk_size |-> chunk_size, chunk_overlap |-> chunk_overlap]

\* configurations whose chunk_text returns (chunk_overlap < chunk_size)
Services == { Service(2, 1), Service(2, 0) }

Namespaces == { "", "portfolio" }

\* texts of documents, CSV rows and JSON items
DocTexts ==
    { <<>>, <<"a">>, <<"a", "b", "c">>, <<"x", "y">> }

\* f"doc_{i}"
DocId(i) == <<"doc_", i>>

\* text[start:end] of a text, 0 <= start < len(text)
Slice(text, start, end) ==
    SubSeq(text, start + 1, IF end < Len(text) THEN end ELSE Len(text))

\* chunk_text: the while loop from the value `start`
RECURSIVE chunk_loop(_, _, _)
chunk_loop(self, text, start) ==
    IF start < Len(text)
    THEN << Slice(text, start, start + self.chunk_size) >>
         \o chunk_loop(self, text,
                       start + self.chunk_size - self.chunk_overlap)
    ELSE <<>>

\* EmbeddingService.chunk_text(text)
chunk_text(self, text) == chunk_loop(self, text, 0)

\* EmbeddingService.prepare_metadata; `now` is datetime.now() and
\* `additional` the list of the row or item index, empty when the caller
\* passes no additional metadata
prepare_metadata(source, content_type, now, additional) ==
    [source |-> source, content_type |-> content_type, timestamp |-> now,
     index |-> additional]

\* a record of the index, in a namespace
Record(namespace, record) ==
    [namespace |-> namespace, _id |-> record._id,
     chunk_text |-> record.chunk_text, meta |-> record.meta]

\* batch_upsert_text with ids that go on counting from call to call
prepare_records_counting_on(texts, metadata) ==
    [i \in 1..Len(texts) |->
        [_id |-> DocId((metadata[i].timestamp - 1) * Len(texts) + i - 1),
         chunk_text |-> texts[i], meta |-> metadata[i]]]

\* batch_upsert_text, `Prepare all records`: enumerate counts from 0 in
\* every call
prepare_records(texts, metadata) ==
    [i \in 1..Len(texts) |->
        [_id |-> DocId(i - 1), chunk_text |-> texts[i], meta |-> metadata[i]]]

\* the generator chunks(lst, n) of batch_upsert_text, as a list
RECURSIVE chunks(_, _)
chunks(lst, n) ==
    IF lst = <<>> THEN <<>>
    ELSE IF Len(lst) <= n THEN << lst >>
    ELSE << SubSeq(lst, 1, n) >> \o chunks(SubSeq(lst, n + 1, Len(lst)), n)

\* the store after one record is upserted: a record of the namespace with
\* the same id is replaced, any other record is kept
upsert_record(stored, namespace, record) ==
    IF \E k \in 1..Len(stored) :
          stored[k].namespace = namespace /\ stored[k]._id = record._id
    THEN [k \in 1..Len(stored) |->
             IF stored[k].namespace = namespace /\ stored[k]._id = record._id
             THEN Record(namespace, record) ELSE stored[k]]
    ELSE Append(stored, Record(namespace, record))

\* index.upsert_records(namespace, batch)
RECURSIVE upsert_records(_, _, _)
upsert_records(stored, namespace, batch) ==
    IF batch = <<>> THEN stored
    ELSE upsert_records(upsert_record(stored, namespace, Head(batch)),
                        namespace, Tail(batch))

\* batch_upsert_text, `Upsert in batches`, from batch `b` on; the upsert of
\* batch `failing` raises (0: none does)
RECURSIVE upsert_batches(_, _, _, _, _)
upsert_batches(stored, namespace, batches, b, failing) ==
    IF b > Len(batches) THEN [records |-> stored, exc |-> "none", upserted |-> 0]
    ELSE IF b = failing THEN [records |-> stored, exc |-> "Exception", upserted |-> 0]
    ELSE LET rest == upsert_batches(upsert_records(stored, namespace, batches[b]),
                                    namespace, batches, b + 1, failing)
         IN  [rest EXCEPT !.upserted = @ + Len(batches[b])]

\* batch_upsert_text(index, texts, metadata, namespace=namespace)
batch_upsert_text(stored, texts, metadata, namespace, failing) ==
    upsert_batches(stored, namespace,
                   chunks(prepare_records(texts, metadata), BatchSize),
                   1, failing)

\* the store and the calls of embed_text made on it so far
Store(stored, log) == [records |-> stored, embedded |-> log, exc |-> "none"]

\* EmbeddingService.embed_text(text, metadata, namespace) on the store
embed_text(self, store, text, metadata, namespace, failing) ==
    LET texts == chunk_text(self, text)
        metadatas == [i \in 1..Len(texts) |-> metadata]
        out == batch_upsert_text(store.records, texts, metadatas, namespace,
                                 failing)
    IN  [records |-> out.records,
         embedded |-> Append(store.embedded,
                             [namespace |-> namespace, chunks |-> texts,
                              meta |-> metadata, upserted |-> out.upserted]),
         exc |-> out.exc]

\* a file: whether it exists, its suffix, and the texts of its rows (.csv),
\* of the items of its list (.json holding a list) or its one text
File(exists, suffix, is_list, texts) ==
    [exists |-> exists, suffix |-> suffix, is_list |-> is_list, texts |-> texts]

\* embed_file: the loop over the rows or items from position `i` on; the
\* upsert of row `failing` raises (0: none does)
RECURSIVE embed_rows(_, _, _, _, _, _, _)
embed_rows(self, store, file, content_type, namespace, i, failing) ==
    IF i > Len(file.texts) THEN store
    ELSE LET now == Len(store.embedded) + 1
             metadata == prepare_metadata(file.suffix, content_type, now, << i - 1 >>)
             out == embed_text(self, store, file.texts[i], metadata, namespace,
                               IF i = failing THEN 1 ELSE 0)
         IN  IF out.exc # "none" THEN out
             ELSE embed_rows(self, out, file, content_type, namespace,
                             i + 1, failing)

\* EmbeddingService.embed_file(file_path, content_type, namespace)
embed_file(self, store, file, content_type, namespace, failing) ==
    IF ~file.exists THEN [store EXCEPT !.exc = "FileNotFoundError"]
    ELSE IF file.suffix = ".csv" \/ (file.suffix = ".json" /\ file.is_list)
    THEN embed_rows(self, store, file, content_type, namespace, 1, failing)
    ELSE IF file.suffix \in {".json", ".txt", ".md"}
    THEN embed_text(self, store, file.texts[1],
                    prepare_metadata(file.suffix, content_type,
                                     Len(store.embedded) + 1, <<>>),
                    namespace, IF failing = 1 THEN 1 ELSE 0)
    ELSE [store EXCEPT !.exc = "ValueError"]

-----------------------------------------------------------------------------
(* Specifications *)

Idle ==
    /\ pc = "start"
    /\ llm_response = NoResponse
    /\ query_analysis = NoOutcome
    /\ store_result = NoStoreResult
    /\ agent_result = NoEnvelope
    /\ portfolio_data = EmptySnapshot
    /\ query_filters = NoFilterSet
    /\ filtered_portfolio = EmptySnapshot
    /\ tool_call = NoToolCall
    /\ tool_result = NoToolResult
    /\ source_calls = <<>>
    /\ stock_data = <<>>
    /\ earnings_data = <<>>
    /\ news_data = <<>>
    /\ risk_analysis = NoRisk
    /\ request = NoRequest
    /\ process_symbols = <<>>
    /\ calls = <<>>
    /\ composition = NoComposition
    /\ process_result = NoResult
    /\ response = NoResult
    /\ credentials = "unread"
    /\ tts_state = "unloaded"
    /\ stt_client = FALSE
    /\ enable_voice = TRUE
    /\ speech_input_enabled = FALSE
    /\ messages = <<>>
    /\ notice = "none"
    /\ outstanding = {}
    /\ cursor = 0
    /\ orchestrator = NewOrchestrator
    /\ session = <<>>
    /\ records = <<>>
    /\ embedded = <<>>

(* Query understanding *)

InitUnderstand == Idle /\ query \in Queries

\* one call of _understand_query, for each outcome of the language-model call
UnderstandQuery ==
    /\ pc = "start"
    /\ \E resp \in LLMResponses :
          /\ llm_response' = resp
          /\ query_analysis' = understand_query(query, resp)
    /\ pc' = "understood"
    /\ UNCHANGED <<query, store_result, agent_result, portfolio_data,
                   query_filters, filtered_portfolio>>
    /\ UNCHANGED later_vars
    /\ UNCHANGED final_vars

NextUnderstand == UnderstandQuery

SpecUnderstand == InitUnderstand /\ [][NextUnderstand]_vars

(* Portfolio retriever *)

InitAgent == Idle /\ query = <<>>

\* one call of PortfolioAgent.process, for each outcome of query_text
AgentProcess ==
    /\ pc = "start"
    /\ \E results \in StoreResults :
          /\ store_result' = results
          /\ agent_result' = agent_process(results)
    /\ pc' = "agent_done"
    /\ UNCHANGED <<query, llm_response, query_analysis, portfolio_data,
                   query_filters, filtered_portfolio>>
    /\ UNCHANGED later_vars
    /\ UNCHANGED final_vars

\* _get_portfolio_data on the envelope of the agent
GetPortfolioData ==
    /\ pc = "agent_done"
    /\ LET got == get_portfolio_data(agent_result)
       IN  /\ portfolio_data' = got.data
           /\ pc' = IF got.error # "" THEN "no_portfolio" ELSE "retrieved"
    /\ UNCHANGED <<query, llm_response, query_analysis, store_result,
                   agent_result, query_filters, filtered_portfolio>>
    /\ UNCHANGED later_vars
    /\ UNCHANGED final_vars

NextAgent == AgentProcess \/ GetPortfolioData

SpecAgent == InitAgent /\ [][NextAgent]_vars

(* Portfolio filter *)

\* the holdings lists the retriever hands over: every symbol at most once
HoldingLists ==
    { hs \in UNION { [1..n -> LabelledHoldings \cup UnlabelledHoldings] :
                        n \in 1..MaxHoldings } :
        \A i, j \in 1..Len(hs) : i # j => hs[i].symbol # hs[j].symbol }

InitFilter == Idle /\ query = <<>>

\* the retriever's snapshot of a holdings list reaches process
RetrievePortfolio ==
    /\ pc = "start"
    /\ \E hs \in HoldingLists :
          /\ agent_result' = Envelope(TRUE, structured_response(hs, Cash), "")
          /\ portfolio_data' = get_portfolio_data(agent_result').data
    /\ pc' = "retrieved"
    /\ UNCHANGED <<query, llm_response, query_analysis, store_result,
                   query_filters, filtered_portfolio>>
    /\ UNCHANGED later_vars
    /\ UNCHANGED final_vars

\* one call of _filter_portfolio_data, for each filter set
FilterPortfolio ==
    /\ pc = "retrieved"
    /\ \E f \in FilterSets :
          /\ query_filters' = f
          /\ filtered_portfolio' = filter_portfolio_data(portfolio_data, f)
    /\ pc' = "filtered"
    /\ UNCHANGED <<query, llm_response, query_analysis, store_result,
                   agent_result, portfolio_data>>
    /\ UNCHANGED later_vars
    /\ UNCHANGED final_vars

NextFilter == RetrievePortfolio \/ FilterPortfolio

SpecFilter == InitFilter /\ [][NextFilter]_vars

(* Tool adapters *)

InitAdapters == Idle /\ query = <<>>

\* one call of EODHDTool.invoke, for each outcome of the price provider
InvokeEODHD ==
    /\ pc = "start"
    /\ \E ticker \in Tickers, outcome \in HistoryOutcomes :
          /\ tool_call' = ToolCall("eodhd", ticker, <<>>, outcome, FALSE, <<>>)
          /\ tool_result' = eodhd_invoke(ticker, outcome)
    /\ source_calls' = <<>>
    /\ pc' = "returned"
    /\ UNCHANGED <<base_vars, fetch_vars, process_vars, speech_vars>>
    /\ UNCHANGED final_vars

\* one call of EarningsSurpriseTool.execute
ExecuteEarnings ==
    /\ pc = "start"
    /\ \E ticker \in Tickers, outcome \in EarningsOutcomes :
          /\ tool_call' = ToolCall("earnings", ticker, <<>>, outcome, FALSE, <<>>)
          /\ tool_result' = earnings_execute(ticker, outcome)
    /\ source_calls' = <<>>
    /\ pc' = "returned"
    /\ UNCHANGED <<base_vars, fetch_vars, process_vars, speech_vars>>
    /\ UNCHANGED final_vars

\* one call of CompanyMetadataTool.execute
ExecuteMetadata ==
    /\ pc = "start"
    /\ \E ticker \in Tickers, outcome \in MetadataOutcomes :
          /\ tool_call' = ToolCall("metadata", ticker, <<>>, outcome, FALSE, <<>>)
          /\ tool_result' = metadata_execute(ticker, outcome)
    /\ source_calls' = <<>>
    /\ pc' = "returned"
    /\ UNCHANGED <<base_vars, fetch_vars, process_vars, speech_vars>>
    /\ UNCHANGED final_vars

\* one call of NewsTool.execute, for each outcome of the requests it makes
ExecuteNews ==
    /\ pc = "start"
    /\ \E syms \in NewsSymbolLists, primary \in PrimaryOutcomes,
          configured \in BOOLEAN :
          \E outcomes \in SecondaryRuns(syms) :
             LET run == news_execute(syms, primary, configured, outcomes)
             IN  /\ tool_call' = ToolCall("news", "", syms, primary,
                                          configured, outcomes)
                 /\ tool_result' = run.result
                 /\ source_calls' = run.calls
    /\ pc' = "returned"
    /\ UNCHANGED <<base_vars, fetch_vars, process_vars, speech_vars>>
    /\ UNCHANGED final_vars

NextAdapters == InvokeEODHD \/ ExecuteEarnings \/ ExecuteMetadata \/ ExecuteNews

SpecAdapters == InitAdapters /\ [][NextAdapters]_vars

(* Risk estimator *)

InitRisk == Idle /\ query = <<>>

\* one call of _calculate_portfolio_risk
CalculateRisk ==
    /\ pc = "start"
    /\ \E pd \in RiskPortfolios, stock \in StockData :
          /\ filtered_portfolio' = pd
          /\ stock_data' = stock
          /\ risk_analysis' = calculate_portfolio_risk(pd, stock)
    /\ pc' = "risk_done"
    /\ UNCHANGED <<query, llm_response, query_analysis, store_result,
                   agent_result, portfolio_data, query_filters>>
    /\ UNCHANGED <<adapter_vars, earnings_data, news_data, process_vars, speech_vars>>
    /\ UNCHANGED final_vars

NextRisk == CalculateRisk

SpecRisk == InitRisk /\ [][NextRisk]_vars

(* Query processing *)

InitProcess == Idle /\ query = <<>>

\* process_query up to the call of the workflow manager, for each request
ValidateQuery ==
    /\ pc = "start"
    /\ \E req \in Requests :
          /\ request' = req
          /\ IF invalid_query(req)
             THEN /\ response' = Result({"error", "final_result", "timestamp"},
                                        FALSE, "Invalid query provided",
                                        InvalidQueryMessage)
                  /\ pc' = "done"
                  /\ UNCHANGED query
             ELSE /\ query' = Strip(req.text)
                  /\ pc' = "understanding"
                  /\ UNCHANGED response
    /\ UNCHANGED <<llm_response, query_analysis, store_result, agent_result,
                   portfolio_data, query_filters, filtered_portfolio>>
    /\ UNCHANGED <<adapter_vars, fetch_vars, speech_vars>>
    /\ UNCHANGED <<process_symbols, calls, composition, process_result>>
    /\ UNCHANGED final_vars

\* process: query_analysis = await self._understand_query(query)
ProcessUnderstand ==
    /\ pc = "understanding"
    /\ \E resp \in LLMResponses :
          /\ llm_response' = resp
          /\ query_analysis' = understand_query(query, resp)
          /\ calls' = Append(calls, Call("llm", "understand", ProviderOutcome(resp.kind, <<>>)))
    /\ pc' = "retrieving"
    /\ UNCHANGED <<query, store_result, agent_result, portfolio_data,
                   query_filters, filtered_portfolio>>
    /\ UNCHANGED <<adapter_vars, fetch_vars, speech_vars>>
    /\ UNCHANGED <<request, process_symbols, composition, process_result, response>>
    /\ UNCHANGED final_vars

\* process: portfolio_data = await self._get_portfolio_data(), and the return
\* of {"error": ...} when it has an "error" entry
ProcessRetrieve ==
    /\ pc = "retrieving"
    /\ \E env \in { agent_process(r) : r \in ProcessStoreResults } \cup {AgentFailure} :
          /\ agent_result' = env
          /\ LET got == get_portfolio_data(env)
             IN  IF got.error # ""
                 THEN /\ process_result' = ProcessError(got.error)
                      /\ pc' = "returned"
                      /\ UNCHANGED portfolio_data
                 ELSE /\ portfolio_data' = got.data
                      /\ pc' = "filtering"
                      /\ UNCHANGED process_result
    /\ UNCHANGED <<query, llm_response, query_analysis, store_result,
                   query_filters, filtered_portfolio>>
    /\ UNCHANGED <<adapter_vars, fetch_vars, speech_vars>>
    /\ UNCHANGED <<request, process_symbols, calls, composition, response>>
    /\ UNCHANGED final_vars

\* process: the filtering, the choice of the symbols, and the first reads of
\* query_analysis["filters"] and query_analysis["tools"]
ProcessFilter ==
    /\ pc = "filtering"
    /\ LET qa == query_analysis.value
           exc == IF qa.type # "dict" THEN "TypeError"
                  ELSE IF "filters" \notin qa.keys THEN "KeyError"
                  ELSE IF qa.filters_type # "dict" THEN "AttributeError"
                  ELSE "none"
           filtered == filter_portfolio_data(portfolio_data, qa.filters)
           syms == symbols_to_process(qa.filters, filtered)
       IN  IF exc # "none"
           THEN /\ process_result' = ProcessFailure(exc)
                /\ pc' = "returned"
                /\ UNCHANGED <<query_filters, filtered_portfolio, process_symbols>>
           ELSE /\ query_filters' = qa.filters
                /\ filtered_portfolio' = filtered
                /\ IF syms = <<>>
                   THEN /\ process_result' = ProcessError("No symbols found to process")
                        /\ pc' = "returned"
                        /\ UNCHANGED process_symbols
                   ELSE IF "tools" \notin qa.keys
                   THEN /\ process_symbols' = syms
                        /\ process_result' = ProcessFailure("KeyError")
                        /\ pc' = "returned"
                   ELSE /\ process_symbols' = syms
                        /\ pc' = "fetching_stock"
                        /\ UNCHANGED process_result
    /\ UNCHANGED <<query, llm_response, query_analysis, store_result,
                   agent_result, portfolio_data>>
    /\ UNCHANGED <<adapter_vars, fetch_vars, speech_vars>>
    /\ UNCHANGED <<request, calls, composition, response>>
    /\ UNCHANGED final_vars

Requested(tool) ==
    \E i \in 1..Len(query_analysis.value.tools) :
        query_analysis.value.tools[i] = tool

\* process: data["stock"] = await self._get_stock_data(symbols)
FetchStock ==
    /\ pc = "fetching_stock"
    /\ IF Requested("stock")
       THEN \E outcomes \in [1..Len(process_symbols) -> ProcessHistoryOutcomes] :
               LET fetched == get_stock_data(process_symbols, outcomes)
               IN  /\ stock_data' = fetched.aggregate
                   /\ calls' = calls \o fetched.calls
       ELSE UNCHANGED <<stock_data, calls>>
    /\ pc' = "fetching_earnings"
    /\ UNCHANGED <<base_vars, adapter_vars, speech_vars, earnings_data, news_data,
                   risk_analysis>>
    /\ UNCHANGED <<request, process_symbols, composition, process_result, response>>
    /\ UNCHANGED final_vars

\* process: data["earnings"] = await self._get_earnings_data(symbols)
FetchEarnings ==
    /\ pc = "fetching_earnings"
    /\ IF Requested("earnings")
       THEN \E outcomes \in [1..Len(process_symbols) -> ProcessEarningsOutcomes] :
               LET fetched == get_earnings_data(process_symbols, outcomes)
               IN  /\ earnings_data' = fetched.aggregate
                   /\ calls' = calls \o fetched.calls
       ELSE UNCHANGED <<earnings_data, calls>>
    /\ pc' = "fetching_news"
    /\ UNCHANGED <<base_vars, adapter_vars, speech_vars, stock_data, news_data,
                   risk_analysis>>
    /\ UNCHANGED <<request, process_symbols, composition, process_result, response>>
    /\ UNCHANGED final_vars

\* process: data["news"] = await self._get_news(symbols)
FetchNews ==
    /\ pc = "fetching_news"
    /\ IF Requested("news")
       THEN \E outcomes \in [1..Len(process_symbols) -> NewsOutcomes] :
               LET fetched == get_news(process_symbols, outcomes)
               IN  /\ news_data' = fetched.aggregate
                   /\ calls' = calls \o fetched.calls
       ELSE UNCHANGED <<news_data, calls>>
    /\ pc' = "estimating_risk"
    /\ UNCHANGED <<base_vars, adapter_vars, speech_vars, stock_data, earnings_data,
                   risk_analysis>>
    /\ UNCHANGED <<request, process_symbols, composition, process_result, response>>
    /\ UNCHANGED final_vars

\* process: data["risk"] = self._calculate_portfolio_risk(filtered_portfolio,
\* data.get("stock", {}))
EstimateRisk ==
    /\ pc = "estimating_risk"
    /\ IF Requested("risk")
       THEN risk_analysis' = calculate_portfolio_risk(filtered_portfolio, stock_data)
       ELSE UNCHANGED risk_analysis
    /\ pc' = "composing"
    /\ UNCHANGED <<base_vars, adapter_vars, speech_vars, stock_data, earnings_data,
                   news_data>>
    /\ UNCHANGED process_vars
    /\ UNCHANGED final_vars

\* process: the formatting, the analysis of the language model and the
\* combination of the two into final_result
Compose ==
    /\ pc = "composing"
    /\ LET qa == query_analysis.value
           intent == IF "intent" \in qa.keys THEN qa.intent ELSE "unknown"
       IN  IF Intent(intent).exc # "none"                 \* Intent(...) raises
           THEN /\ process_result' = ProcessFailure(Intent(intent).exc)
                /\ UNCHANGED <<calls, composition>>
           ELSE \E outcome \in ComposeOutcomes :
                   /\ composition' = outcome
                   /\ calls' = Append(calls, Call("llm", "compose",
                                         ProviderOutcome(outcome.kind, <<>>)))
                   /\ process_result' =
                         Result({"success", "data", "final_result"}, TRUE, None,
                                format_results(Intent(intent).member)
                                   \o analyze_with_llm(outcome))
    /\ pc' = "returned"
    /\ UNCHANGED <<base_vars, adapter_vars, fetch_vars, speech_vars>>
    /\ UNCHANGED <<request, process_symbols, response>>
    /\ UNCHANGED final_vars

\* WorkflowManager.process after the orchestrator returned, and the return of
\* process_query
ReturnResult ==
    /\ pc = "returned"
    /\ response' = workflow_process(process_result)
    /\ pc' = "done"
    /\ UNCHANGED <<base_vars, adapter_vars, fetch_vars, speech_vars>>
    /\ UNCHANGED <<request, process_symbols, calls, composition, process_result>>
    /\ UNCHANGED final_vars

NextProcess ==
    \/ ValidateQuery \/ ProcessUnderstand \/ ProcessRetrieve \/ ProcessFilter
    \/ FetchStock \/ FetchEarnings \/ FetchNews \/ EstimateRisk
    \/ Compose \/ ReturnResult

SpecProcess == InitProcess /\ [][NextProcess]_vars

(* One query, call by call *)

InitFlow == Idle /\ query = <<>>

\* the call that is awaited at this position, if it was issued
Awaited(category, symbol) ==
    { c \in outstanding : c.category = category /\ c.symbol = symbol }

\* an external call is issued: it is logged and outstanding
Issue(category, symbol) ==
    /\ outstanding = {}
    /\ \E returns \in BOOLEAN :
          outstanding' = { Pending(category, symbol, Len(calls) + 1, returns) }
    /\ calls' = Append(calls, Call(category, symbol, Unanswered))

\* _understand_query: chain.ainvoke is called
IssueUnderstand ==
    /\ pc = "understanding"
    /\ Issue("llm", "understand")
    /\ UNCHANGED <<pc, base_vars, adapter_vars, fetch_vars, speech_vars>>
    /\ UNCHANGED <<request, process_symbols, composition, process_result, response>>
    /\ UNCHANGED <<cursor, session_vars, store_vars>>

\* _understand_query: the call is back, and the rest of the method
ReturnUnderstand ==
    /\ pc = "understanding"
    /\ \E c \in Awaited("llm", "understand") :
          /\ resumes(c)
          /\ \E resp \in LLMResponses :
                /\ llm_response' = resp
                /\ query_analysis' = understand_query(query, resp)
                /\ calls' = [calls EXCEPT ![c.index].outcome =
                                             ProviderOutcome(resp.kind, <<>>)]
          /\ outstanding' = outstanding \ {c}
    /\ pc' = "retrieving"
    /\ UNCHANGED <<query, store_result, agent_result, portfolio_data,
                   query_filters, filtered_portfolio>>
    /\ UNCHANGED <<adapter_vars, fetch_vars, speech_vars>>
    /\ UNCHANGED <<request, process_symbols, composition, process_result, response>>
    /\ UNCHANGED <<cursor, session_vars, store_vars>>

\* PortfolioAgent.process: query_text is called
IssueRetrieve ==
    /\ pc = "retrieving"
    /\ Issue("store", "portfolio")
    /\ UNCHANGED <<pc, base_vars, adapter_vars, fetch_vars, speech_vars>>
    /\ UNCHANGED <<request, process_symbols, composition, process_result, response>>
    /\ UNCHANGED <<cursor, session_vars, store_vars>>

\* the search is back: the rest of PortfolioAgent.process and of
\* _get_portfolio_data, and the return of process on an "error" entry
ReturnRetrieve ==
    /\ pc = "retrieving"
    /\ \E c \in Awaited("store", "portfolio") :
          /\ resumes(c)
          /\ outstanding' = outstanding \ {c}
          /\ \E env \in { agent_process(r) : r \in ProcessStoreResults }
                           \cup {AgentFailure} :
                /\ agent_result' = env
                /\ calls' = [calls EXCEPT ![c.index].outcome =
                                ProviderOutcome(IF env.success THEN "hits"
                                                ELSE "raise", <<>>)]
                /\ LET got == get_portfolio_data(env)
                   IN  IF got.error # ""
                       THEN /\ process_result' = ProcessError(got.error)
                            /\ pc' = "returned"
                            /\ UNCHANGED portfolio_data
                       ELSE /\ portfolio_data' = got.data
                            /\ pc' = "filtering"
                            /\ UNCHANGED process_result
    /\ UNCHANGED <<query, llm_response, query_analysis, store_result,
                   query_filters, filtered_portfolio>>
    /\ UNCHANGED <<adapter_vars, fetch_vars, speech_vars>>
    /\ UNCHANGED <<request, process_symbols, composition, response>>
    /\ UNCHANGED <<cursor, session_vars, store_vars>>

\* the position of process at which the loop of a category runs
StageOf(category) ==
    IF category = "stock" THEN "fetching_stock" ELSE "fetching_earnings"

\* the loop of a category asks its provider about the next symbol
IssueFetch(category) ==
    /\ pc = StageOf(category)
    /\ Requested(category)
    /\ outstanding = {}
    /\ cursor < Len(process_symbols)
    /\ LET reqs == next_requests(process_symbols, cursor)
       IN  /\ \E returns \in [1..Len(reqs) -> BOOLEAN] :
                 outstanding' =
                    { Pending(category, reqs[k], Len(calls) + k, returns[k]) :
                         k \in 1..Len(reqs) }
           /\ calls' = calls \o [k \in 1..Len(reqs) |->
                                    Call(category, reqs[k], Unanswered)]
           /\ cursor' = cursor + Len(reqs)
    /\ UNCHANGED <<pc, base_vars, adapter_vars, fetch_vars, speech_vars>>
    /\ UNCHANGED <<request, process_symbols, composition, process_result, response>>
    /\ UNCHANGED <<session_vars, store_vars>>

\* the provider answered: the rest of the loop body for that symbol
ReturnFetch(category) ==
    /\ pc = StageOf(category)
    /\ \E c \in outstanding :
          /\ c.category = category
          /\ resumes(c)
          /\ outstanding' = outstanding \ {c}
          /\ \E outcome \in OutcomesOf(category) :
                /\ calls' = [calls EXCEPT ![c.index].outcome = outcome]
                /\ cursor' = resume_at(cursor,
                                 ~Answered(Call(category, c.symbol, outcome)))
                /\ IF category = "stock"
                   THEN /\ stock_data' =
                              loop_body(category, stock_data, c.symbol, outcome)
                        /\ UNCHANGED earnings_data
                   ELSE /\ earnings_data' =
                              loop_body(category, earnings_data, c.symbol, outcome)
                        /\ UNCHANGED stock_data
    /\ UNCHANGED <<pc, base_vars, adapter_vars, speech_vars, news_data,
                   risk_analysis>>
    /\ UNCHANGED <<request, process_symbols, composition, process_result, response>>
    /\ UNCHANGED <<session_vars, store_vars>>

\* the loop of a category is over, or the category was not asked for
EndFetch(category) ==
    /\ pc = StageOf(category)
    /\ \/ ~Requested(category)
       \/ cursor = Len(process_symbols) /\ outstanding = {}
    /\ pc' = IF category = "stock" THEN "fetching_earnings" ELSE "fetching_news"
    /\ cursor' = 0
    /\ UNCHANGED <<base_vars, adapter_vars, fetch_vars, speech_vars>>
    /\ UNCHANGED process_vars
    /\ UNCHANGED <<outstanding, session_vars, store_vars>>

\* process: Intent(...) raises for an intent that is no member
RejectIntent ==
    /\ pc = "composing"
    /\ Intent(IntentOfAnalysis(query_analysis.value)).exc # "none"
    /\ process_result' =
          ProcessFailure(Intent(IntentOfAnalysis(query_analysis.value)).exc)
    /\ pc' = "returned"
    /\ UNCHANGED <<base_vars, adapter_vars, fetch_vars, speech_vars>>
    /\ UNCHANGED <<request, process_symbols, calls, composition, response>>
    /\ UNCHANGED final_vars

\* _analyze_with_llm: chain.ainvoke is called
IssueCompose ==
    /\ pc = "composing"
    /\ Intent(IntentOfAnalysis(query_analysis.value)).exc = "none"
    /\ Issue("llm", "compose")
    /\ UNCHANGED <<pc, base_vars, adapter_vars, fetch_vars, speech_vars>>
    /\ UNCHANGED <<request, process_symbols, composition, process_result, response>>
    /\ UNCHANGED <<cursor, session_vars, store_vars>>

\* the call of the composition is back: final_result and the return of process
ReturnCompose ==
    /\ pc = "composing"
    /\ \E c \in Awaited("llm", "compose") :
          /\ resumes(c)
          /\ outstanding' = outstanding \ {c}
          /\ \E outcome \in ComposeOutcomes :
                /\ composition' = outcome
                /\ calls' = [calls EXCEPT ![c.index].outcome =
                                ProviderOutcome(outcome.kind, <<>>)]
                /\ process_result' =
                      Result({"success", "data", "final_result"}, TRUE, None,
                             format_results(
                                Intent(IntentOfAnalysis(query_analysis.value)).member)
                             \o analyze_with_llm(outcome))
    /\ pc' = "returned"
    /\ UNCHANGED <<base_vars, adapter_vars, fetch_vars, speech_vars>>
    /\ UNCHANGED <<request, process_symbols, response>>
    /\ UNCHANGED <<cursor, session_vars, store_vars>>

NextFlow ==
    \/ ValidateQuery
    \/ IssueUnderstand \/ ReturnUnderstand
    \/ IssueRetrieve \/ ReturnRetrieve
    \/ ProcessFilter
    \/ \E category \in {"stock", "earnings"} :
          IssueFetch(category) \/ ReturnFetch(category) \/ EndFetch(category)
    \/ FetchNews
    \/ EstimateRisk
    \/ RejectIntent \/ IssueCompose \/ ReturnCompose
    \/ ReturnResult

SpecFlow == InitFlow /\ [][NextFlow]_vars

\* the task of the query runs whenever it can: it is the only task
SpecFlowFair == SpecFlow /\ WF_vars(NextFlow)

(* A session: queries processed one after another by one orchestrator *)

\* queries processed in one session
MaxQueries == 2

SessionQueries == {W_news, TestQuery}

SessionResponses ==
    { r \in LLMResponses :
        \/ r.kind = "raise"
        \/ r.parses /\ r.value.type = "dict" /\ "tools" \in r.value.keys
             /\ r.value.intent \in {"risk_exposure", "forecast"} }

SessionEnvelopes ==
    { agent_process(r) : r \in { x \in ProcessStoreResults :
                                    ~x.ok \/ x.hits # <<>> } }

\* the provider answers every symbol of the query alike
SessionOutcomes(category) ==
    { [i \in 1..MaxHoldings |-> o] :
        o \in { x \in OutcomesOf(category) :
                   x.kind = "raise" \/ Len(x.closes) > 1 } }

SessionInputs ==
    { Inputs(q, resp, env, stock, earnings, earnings, compose) :
        q \in SessionQueries, resp \in SessionResponses,
        env \in SessionEnvelopes, stock \in SessionOutcomes("stock"),
        earnings \in SessionOutcomes("earnings"),
        compose \in { c \in ComposeOutcomes :
                         c.kind = "raise" \/ c.content # <<>> } }

InitSession == Idle /\ query = <<>>

\* one call of process on the orchestrator of the session, from the call to
\* the return, with the answers the collaborators give during it
SessionQuery ==
    /\ pc = "start"
    /\ Len(session) < MaxQueries
    /\ \E inp \in SessionInputs :
          LET out == process(orchestrator, inp)
          IN  /\ orchestrator' = out.self
              /\ session' = Append(session, [inputs |-> inp,
                                             result |-> out.result,
                                             data |-> out.data])
    /\ UNCHANGED <<pc, base_vars, later_vars, flow_vars, store_vars>>

NextSession == SessionQuery

SpecSession == InitSession /\ [][NextSession]_vars

(* The document store: calls of embed_text and embed_file, one after another *)

\* calls of embed_text made on the store
MaxCalls == 2

\* rows or items of a file
MaxRows == 2

Files ==
    { File(FALSE, ".csv", FALSE, <<>>), File(TRUE, ".pdf", FALSE, << <<"a">> >>),
      File(TRUE, ".csv", FALSE, <<>>),
      File(TRUE, ".json", FALSE, << <<"x", "y">> >>),
      File(TRUE, ".txt", FALSE, << <<"a", "b", "c">> >>) }
    \cup { File(TRUE, suffix, suffix = ".json", texts) :
              suffix \in {".csv", ".json"},
              texts \in UNION { [1..n -> DocTexts \ {<<>>}] : n \in 1..MaxRows } }

\* embed_text calls embed_file makes on the file when no upsert raises
CallsOfFile(file) ==
    IF ~file.exists \/ file.suffix \notin {".csv", ".json", ".txt", ".md"} THEN 0
    ELSE Len(file.texts)

InitStore == Idle /\ query = <<>>

\* one call of embed_text (embed_mock_data, or a caller of the service)
EmbedText ==
    /\ pc = "start"
    /\ Len(embedded) < MaxCalls
    /\ \E self \in Services, text \in DocTexts, namespace \in Namespaces,
          failing \in {0, 1} :
          LET metadata == prepare_metadata("mock_data", "portfolio",
                                           Len(embedded) + 1, <<>>)
              out == embed_text(self, Store(records, embedded), text, metadata,
                                namespace, failing)
          IN  /\ records' = out.records
              /\ embedded' = out.embedded
    /\ UNCHANGED <<pc, base_vars, later_vars, flow_vars, session_vars>>

\* one call of embed_file (embed_user_data, embed_streamlit_upload)
EmbedFile ==
    /\ pc = "start"
    /\ \E self \in Services, file \in Files, namespace \in Namespaces,
          failing \in 0..MaxRows :
          /\ Len(embedded) + CallsOfFile(file) <= MaxCalls
          /\ LET out == embed_file(self, Store(records, embedded), file,
                                   "portfolio", namespace, failing)
             IN  /\ records' = out.records
                 /\ embedded' = out.embedded
    /\ UNCHANGED <<pc, base_vars, later_vars, flow_vars, session_vars>>

NextStore == EmbedText \/ EmbedFile

SpecStore == InitStore /\ [][NextStore]_vars

(* Speech services and the UI *)

InitSpeech == Idle /\ query = <<>>

\* main.py line 14: the import of services.tts_service constructs TTSService;
\* an exception of the constructor leaves the import and ends the script
ImportTTS ==
    /\ pc = "start"
    /\ \E creds \in Credentials, client \in ClientOutcomes :
          /\ credentials' = creds
          /\ tts_state' = tts_init(creds, client)
          /\ pc' = IF tts_init(creds, client) = "client"
                   THEN "tts_imported" ELSE "crashed"
    /\ UNCHANGED <<stt_client, enable_voice, speech_input_enabled, messages, notice>>
    /\ UNCHANGED <<base_vars, adapter_vars, fetch_vars, process_vars>>
    /\ UNCHANGED final_vars

\* main.py line 15: the import of services.stt_service constructs STTService
ImportSTT ==
    /\ pc = "tts_imported"
    /\ \E client \in ClientOutcomes :
          stt_client' = stt_initialize(credentials, client)
    /\ pc' = "running"
    /\ UNCHANGED <<credentials, tts_state, enable_voice, speech_input_enabled,
                   messages, notice>>
    /\ UNCHANGED <<base_vars, adapter_vars, fetch_vars, process_vars>>
    /\ UNCHANGED final_vars

\* the checkbox "Enable Voice Output"
ToggleVoice ==
    /\ pc = "running"
    /\ enable_voice' = ~enable_voice
    /\ UNCHANGED <<pc, credentials, tts_state, stt_client, speech_input_enabled,
                   messages, notice>>
    /\ UNCHANGED <<base_vars, adapter_vars, fetch_vars, process_vars>>
    /\ UNCHANGED final_vars

\* the button "Toggle Speech Input"
ToggleSpeechInput ==
    /\ pc = "running"
    /\ speech_input_enabled' = ~speech_input_enabled
    /\ UNCHANGED <<pc, credentials, tts_state, stt_client, enable_voice,
                   messages, notice>>
    /\ UNCHANGED <<base_vars, adapter_vars, fetch_vars, process_vars>>
    /\ UNCHANGED final_vars

\* main: a text typed into the chat input is answered
TextQuery ==
    /\ pc = "running"
    /\ Len(messages) + 2 <= MaxMessages
    /\ \E response_text \in ResponseTexts, outcome \in ClientOutcomes :
          LET spoken == speak(enable_voice, response_text, outcome)
          IN  /\ messages' = Append(messages, "user") \o spoken.added
              /\ notice' = spoken.notice
    /\ UNCHANGED <<pc, credentials, tts_state, stt_client, enable_voice,
                   speech_input_enabled>>
    /\ UNCHANGED <<base_vars, adapter_vars, fetch_vars, process_vars>>
    /\ UNCHANGED final_vars

\* main: a recording is transcribed and, if there is a transcript, answered
SpeechQuery ==
    /\ pc = "running" /\ speech_input_enabled
    /\ Len(messages) + 2 <= MaxMessages
    /\ \E heard \in RecognizeOutcomes, response_text \in ResponseTexts,
          outcome \in ClientOutcomes :
          LET transcribed_text ==
                  IF stt_client THEN transcribe_audio(stt_client, heard)
                  ELSE NoTranscript
              spoken == speak(enable_voice, response_text, outcome)
          IN  IF transcribed_text \in {NoTranscript, ""}
              THEN /\ notice' = IF stt_client THEN "none" ELSE "stt_unavailable"
                   /\ UNCHANGED messages
              ELSE /\ messages' = Append(messages, "user") \o spoken.added
                   /\ notice' = spoken.notice
    /\ UNCHANGED <<pc, credentials, tts_state, stt_client, enable_voice,
                   speech_input_enabled>>
    /\ UNCHANGED <<base_vars, adapter_vars, fetch_vars, process_vars>>
    /\ UNCHANGED final_vars

NextSpeech ==
    \/ ImportTTS \/ ImportSTT \/ ToggleVoice \/ ToggleSpeechInput
    \/ TextQuery \/ SpeechQuery

SpecSpeech == InitSpeech /\ [][NextSpeech]_vars

-----------------------------------------------------------------------------
(* Properties of the portfolio filter and of the retriever's snapshot *)

\* a holding satisfies every dimension of f that is a non-empty set
SatisfiesFilters(h, f) ==
    /\ f.symbols # <<>> => h.symbol \in Range(f.symbols)
    /\ f.regions # <<>> => h.region \in Range(f.regions)
    /\ f.sectors # <<>> => h.sector \in Range(f.sectors)

\* the holdings of the input snapshot that satisfy the filters, in input order
MatchingHoldings ==
    SelectSeq(portfolio_data.holdings, LAMBDA h : SatisfiesFilters(h, query_filters))

EmptyFilters ==
    query_filters.regions = <<>> /\ query_filters.sectors = <<>>
    /\ query_filters.symbols = <<>>

RECURSIVE SumNumOver(_, _)
SumNumOver(m, ks) ==
    IF ks = {} THEN 0
    ELSE LET k == CHOOSE x \in ks : TRUE
         IN  m[k].num + SumNumOver(m, ks \ {k})

\* the percentages of an allocation map add up to pct (all share one denominator)
SumsTo(m, pct) ==
    /\ \A k \in DOMAIN m : m[k].den > 0
    /\ \A k, l \in DOMAIN m : m[k].den = m[l].den
    /\ \A k \in DOMAIN m : SumNumOver(m, DOMAIN m) = pct * m[k].den

\* two allocation maps give the same percentages
SameAllocations(m1, m2) ==
    /\ DOMAIN m1 = DOMAIN m2
    /\ \A k \in DOMAIN m1 : m1[k].num * m2[k].den = m2[k].num * m1[k].den

\* C1: the snapshot returned by _filter_portfolio_data holds exactly the
\* holdings of the input, in input order, that satisfy every non-empty filter
\* dimension; no holding that violates a supplied dimension is returned.
C1_ExactlyMatchingHoldings ==
    pc = "filtered" =>
        /\ filtered_portfolio.holdings = MatchingHoldings
        /\ \A i \in 1..Len(filtered_portfolio.holdings) :
              SatisfiesFilters(filtered_portfolio.holdings[i], query_filters)

Recomputable(hs) ==
    /\ SumValues(hs) > 0
    /\ \A i \in 1..Len(hs) : hs[i].region # Missing /\ hs[i].sector # Missing

C3_ZeroTotalGivesEmptyAllocations ==
    (pc = "filtered" /\ SumValues(MatchingHoldings) = 0) =>
        /\ filtered_portfolio.region_allocations = EmptyMap
        /\ filtered_portfolio.sector_allocations = EmptyMap
        /\ filtered_portfolio.total_value = 0

NoneHeld ==
    /\ query_filters.symbols # <<>>
    /\ \A i \in 1..Len(portfolio_data.holdings) :
          portfolio_data.holdings[i].symbol \notin Range(query_filters.symbols)

\* C4: filtering by a symbol set none of whose symbols is held yields an
\* empty holdings list, an empty symbols list and total_value = 0.
C4_UnheldSymbolsGiveEmptySnapshot ==
    (pc = "filtered" /\ NoneHeld) =>
        /\ filtered_portfolio.holdings = <<>>
        /\ filtered_portfolio.symbols = <<>>
        /\ filtered_portfolio.total_value = 0

C4_Witness ==
    /\ pc = "filtered" /\ NoneHeld
    /\ Len(portfolio_data.holdings) = 2
    /\ SumValues(portfolio_data.holdings) > 0
    /\ filtered_portfolio.holdings = <<>>

\* C5: the sector percentages of the returned snapshot add up to 100, and so
\* do the region percentages, whenever the filtered total value is greater
\* than zero; both maps are empty when the filtered total value is zero.
C5_PercentagesSumTo100OrEmpty ==
    pc = "filtered" =>
        IF SumValues(MatchingHoldings) > 0
        THEN /\ filtered_portfolio.sector_allocations # EmptyMap
             /\ SumsTo(filtered_portfolio.sector_allocations, 100)
             /\ filtered_portfolio.region_allocations # EmptyMap
             /\ SumsTo(filtered_portfolio.region_allocations, 100)
        ELSE /\ filtered_portfolio.sector_allocations = EmptyMap
             /\ filtered_portfolio.region_allocations = EmptyMap

HasHoldings == pc = "agent_done" /\ agent_result.data.holdings # <<>>

\* C6 (as stated): in a snapshot of PortfolioAgent.process with at least one
\* holding the region percentages add up to 100 and the sector percentages
\* add up to 100; the cash balance does not reduce the sum.
C6_AllocationsSumTo100 ==
    HasHoldings =>
        /\ SumsTo(agent_result.data.region_allocations, 100)
        /\ SumsTo(agent_result.data.sector_allocations, 100)

\* the value of the holdings that carry a label under key k
LabelledValue(hs, k) ==
    SumValues(SelectSeq(hs, LAMBDA h : h[k] # Missing))

\* the percentages of map m are taken over total and add up to part / total
SumsToShare(m, part, total) ==
    /\ \A l \in DOMAIN m : m[l].den = total
    /\ SumNumOver(m, DOMAIN m) = 100 * part
    /\ SumNumOver(m, DOMAIN m) < 100 * total

\* C6 (amended): in a snapshot of PortfolioAgent.process with at least one
\* holding the percentages are taken over total_value, which includes the cash
\* balance of 50000: the region percentages add up to 100 times the value of
\* the holdings that have a region divided by total_value, the sector
\* percentages likewise, and both sums are below 100.
C6_AllocationsSumToNonCashShare ==
    HasHoldings =>
        LET d == agent_result.data
        IN  /\ d.total_value = Cash + SumValues(d.holdings)
            /\ SumsToShare(d.region_allocations,
                           LabelledValue(d.holdings, "region"), d.total_value)
            /\ SumsToShare(d.sector_allocations,
                           LabelledValue(d.holdings, "sector"), d.total_value)

C6_Witness ==
    /\ HasHoldings
    /\ Cardinality(DOMAIN agent_result.data.region_allocations) = 2
    /\ SumNumOver(agent_result.data.region_allocations,
                  DOMAIN agent_result.data.region_allocations) > 0

-----------------------------------------------------------------------------
(* Properties of query understanding *)

Understood  == pc = "understood"
CallRaised  == Understood /\ llm_response.kind = "raise"
Unparsable  == Understood /\ llm_response.kind = "text" /\ ~llm_response.parses

\* the text, lower-cased, contains one of the words
Mentions(ws) == \E w \in ws : Contains(Lower(query), w)

\* C7: when the answer of the language model cannot be parsed as JSON the
\* result is the keyword classification of the lower-cased query, in the
\* order risk / earnings / news / stock / portfolio; regions is ["Asia"]
\* exactly when the text contains "asia", sectors is ["Technology"] exactly
\* when it contains "tech", and symbols is always empty.
C7_KeywordClassification ==
    Unparsable =>
        LET r        == query_analysis.value
            risk     == Mentions({W_risk, W_exposure, W_concentration})
            earnings == Mentions({W_earnings, W_surprise, W_report})
            news     == Mentions({W_news, W_headline, W_update})
            stock    == Mentions({W_stock, W_price, W_market})
        IN  /\ query_analysis.exc = "none"
            /\ r.type = "dict"
            /\ risk => r.intent = "risk_exposure"
                       /\ r.tools = <<"portfolio", "risk", "stock">>
            /\ (~risk /\ earnings) =>
                   r.intent = "earnings_surprise" /\ r.tools = <<"earnings", "stock">>
            /\ (~risk /\ ~earnings /\ news) =>
                   r.intent = "news" /\ r.tools = <<"news">>
            /\ (~risk /\ ~earnings /\ ~news /\ stock) =>
                   r.intent = "stock" /\ r.tools = <<"stock">>
            /\ (~risk /\ ~earnings /\ ~news /\ ~stock) =>
                   r.intent = "portfolio" /\ r.tools = <<"portfolio">>
            /\ r.filters_type = "dict"
            /\ r.filters.regions = (IF Mentions({W_asia}) THEN <<"Asia">> ELSE <<>>)
            /\ r.filters.sectors = (IF Mentions({W_tech}) THEN <<"Technology">> ELSE <<>>)
            /\ r.filters.symbols = <<>>

\* a query that names a news word ahead of a risk word, in capitals
C7_Witness ==
    /\ Unparsable
    /\ Mentions({W_news}) /\ Mentions({W_risk}) /\ ~Contains(query, W_risk)
    /\ query_analysis.value.intent = "risk_exposure"

TestQueryIsRiskAsiaTech ==
    /\ query_analysis.value.intent = "risk_exposure"
    /\ query_analysis.value.filters.regions = <<"Asia">>
    /\ query_analysis.value.filters.sectors = <<"Technology">>

\* C8 (as stated): the keyword fallback is taken both when the output fails
\* to parse and when the call of the model raises: either way the query
\* "Show me risk exposure in Asia tech stocks" gets intent risk_exposure,
\* regions ["Asia"] and sectors ["Technology"].
C8_FallbackOnParseFailureAndOnError ==
    ((Unparsable \/ CallRaised) /\ query = TestQuery) => TestQueryIsRiskAsiaTech

\* C8 (amended): the keyword fallback is taken only when the output of the
\* model fails to parse: then the query "Show me risk exposure in Asia tech
\* stocks" gets intent risk_exposure, regions ["Asia"] and sectors
\* ["Technology"]; when the call of the model raises, the keywords are not
\* consulted and the query gets intent portfolio with no filters.
C8_FallbackOnParseFailureOnly ==
    /\ (Unparsable /\ query = TestQuery) => TestQueryIsRiskAsiaTech
    /\ CallRaised =>
          /\ query_analysis.value.intent = "portfolio"
          /\ query_analysis.value.filters = NoFilters

C8_Witness ==
    /\ CallRaised /\ query = TestQuery
    /\ query_analysis.value.intent = "portfolio"
    /\ query_analysis.value.filters.regions = <<>>

\* C9: no exception leaves _understand_query; for every outcome of the call
\* of the language model (valid JSON, unparsable text, raised error) it
\* returns a mapping, and a failure of the call degrades to the fixed default.
C9_AlwaysReturnsMapping ==
    Understood =>
        /\ query_analysis.exc = "none"
        /\ query_analysis.value.type = "dict"
        /\ CallRaised => query_analysis.value = DefaultAnalysis

\* C10: the value returned by _understand_query is a mapping with the keys
\* intent, tools, filters (a mapping), time_period and metrics, whatever the
\* language model answered.
C10_ResultHasContractShape ==
    Understood =>
        /\ query_analysis.value.type = "dict"
        /\ {"intent", "tools", "filters", "time_period", "metrics"}
              \subseteq query_analysis.value.keys
        /\ query_analysis.value.filters_type = "dict"

-----------------------------------------------------------------------------
(* Properties of the tool adapters *)

NewsCall == pc = "returned" /\ tool_call.tool = "news" /\ tool_call.symbols # <<>>

PrimaryFailed == tool_call.outcome.kind # "data"

\* the secondary source failed: a request raised, or none returned news
SecondaryFailed ==
    \/ \E i \in DOMAIN tool_call.secondary : tool_call.secondary[i] = "raise"
    \/ \A i \in DOMAIN tool_call.secondary : tool_call.secondary[i] # "news"

SecondaryQueried == \E i \in DOMAIN source_calls : source_calls[i][1] = "finnhub"

\* C18: NewsTool.execute on a non-empty symbol list asks the primary source
\* first and once; the secondary source, where one is configured, is asked
\* exactly when the primary attempt failed (and never where none is
\* configured); a primary success returns the primary's data with no request to
\* the secondary; when both fail, or the primary fails and no secondary is
\* configured, the call returns one failure envelope with the aggregate error
\* message, and nothing is raised.
C18_PrimaryThenSecondary ==
    NewsCall =>
        /\ tool_result.exc = "none"
        /\ Len(source_calls) >= 1 /\ source_calls[1][1] = "marketaux"
        /\ \A i \in DOMAIN source_calls : i > 1 => source_calls[i][1] = "finnhub"
        /\ SecondaryQueried <=> (PrimaryFailed /\ tool_call.configured)
        /\ ~PrimaryFailed =>
              /\ source_calls = << <<"marketaux", "all">> >>
              /\ tool_result.success /\ tool_result.data.source = "marketaux"
        /\ (PrimaryFailed /\ (~tool_call.configured \/ SecondaryFailed)) =>
              /\ ~tool_result.success
              /\ tool_result.error = AllSourcesFailed
        /\ (PrimaryFailed /\ tool_call.configured /\ ~SecondaryFailed) =>
              /\ tool_result.success /\ tool_result.data.source = "finnhub"

\* the primary failed, the secondary was asked about two symbols and failed too
C18_Witness ==
    /\ NewsCall /\ PrimaryFailed /\ tool_call.configured
    /\ Len(source_calls) = 3 /\ SecondaryFailed
    /\ ~tool_result.success

ProviderRaised == tool_call.outcome.kind = "raise"

\* C19: every adapter call returns an envelope, whatever the provider did: no
\* exception leaves the call, a failure envelope carries an error text, and a
\* success envelope carries a data payload.
C19_AdaptersReturnEnvelopes ==
    pc = "returned" =>
        /\ tool_result.exc = "none"
        /\ ~tool_result.success => tool_result.error # None
        /\ tool_result.success => tool_result.data # NoData

\* the provider raised inside a single-ticker adapter and a failure envelope
\* came back
C19_Witness ==
    /\ pc = "returned" /\ tool_call.tool \in {"eodhd", "earnings", "metadata"}
    /\ tool_call.ticker # "" /\ ProviderRaised
    /\ tool_result.exc = "none" /\ ~tool_result.success
    /\ tool_result.error # None

-----------------------------------------------------------------------------
(* Properties of the risk estimator *)

RECURSIVE SumPairs(_, _, _)
\* the sum of (r[i] - r[j])^2 over the pairs i < j, from the pair (i, j) on
SumPairs(r, i, j) ==
    IF i >= Len(r) THEN 0
    ELSE IF j > Len(r) THEN SumPairs(r, i + 1, i + 2)
    ELSE (r[i] - r[j]) * (r[i] - r[j]) + SumPairs(r, i, j + 1)

\* the series has at least two points and every return is defined
HasReturns(data) ==
    /\ data.kind = "stock" /\ Len(data.historical_data) >= 2
    /\ \A i \in 1..(Len(data.historical_data) - 1) : data.historical_data[i] # 0

\* standard deviation of the daily returns times sqrt(252) is above 0.30: the
\* variance of n values is the sum of the squared pairwise differences over n^2
AnnualisedVolatilityAbove30(closes) ==
    LET r == returns_of(closes)
        n == Len(r)
    IN  SumPairs(r, 1, 2) > (9 * n * n * 1000000) \div 252

Listed(symbol) ==
    \E k \in 1..Len(risk_analysis.high_risk_stocks) :
        risk_analysis.high_risk_stocks[k] = symbol

RiskDone == pc = "risk_done"

\* C15: a symbol is listed in high_risk_stocks exactly when the standard
\* deviation of its daily returns (close[i] - close[i-1]) / close[i-1], times
\* sqrt(252), is above 0.30; the closes 100, 105, 98, 102 give the returns
\* 0.05, -0.0667, 0.0408 and are high risk.
C15_HighRiskIffVolatilityAbove30 ==
    RiskDone =>
        /\ \A i \in 1..Len(stock_data) :
              Listed(stock_data[i].key) <=>
                 /\ HasReturns(stock_data[i].value)
                 /\ AnnualisedVolatilityAbove30(stock_data[i].value.historical_data)
        /\ returns_of(<<100, 105, 98, 102>>) = <<500, -667, 408>>
        /\ \A i \in 1..Len(stock_data) :
              stock_data[i].value.historical_data = <<100, 105, 98, 102>>
                 => Listed(stock_data[i].key)

\* the example series is listed, and a series that moves less is not
C15_Witness ==
    /\ RiskDone /\ Len(stock_data) = 2
    /\ stock_data[1].value.historical_data = <<100, 101, 100>>
    /\ stock_data[2].value.historical_data = <<100, 105, 98, 102>>
    /\ risk_analysis.high_risk_stocks = <<"TSM">>

\* fewer than two historical points, or no historical_data at all
TooShort(data) == data.kind # "stock" \/ Len(data.historical_data) < 2

\* C16: a symbol with fewer than two historical points, or without
\* historical_data, is passed over: it is never listed in high_risk_stocks, the
\* estimator returns no error, and the other symbols are still evaluated.
C16_ShortHistoryIsSkipped ==
    RiskDone =>
        /\ risk_analysis.error = None
        /\ \A i \in 1..Len(stock_data) :
              TooShort(stock_data[i].value) =>
                 /\ ~Listed(stock_data[i].key)
                 /\ \A j \in 1..Len(stock_data) :
                       (/\ HasReturns(stock_data[j].value)
                        /\ AnnualisedVolatilityAbove30(
                               stock_data[j].value.historical_data))
                       => Listed(stock_data[j].key)

\* a symbol with one point comes first and the symbol after it is listed
C16_Witness ==
    /\ RiskDone /\ Len(stock_data) = 2
    /\ stock_data[1].value.kind = "stock"
    /\ Len(stock_data[1].value.historical_data) = 1
    /\ risk_analysis.error = None
    /\ risk_analysis.high_risk_stocks = <<stock_data[2].key>>

-----------------------------------------------------------------------------
(* Properties of query processing *)

HasKey(items, key) == \E i \in 1..Len(items) : items[i].key = key

Aggregate(category) ==
    CASE category = "stock"    -> stock_data
      [] category = "earnings" -> earnings_data
      [] category = "news"     -> news_data

\* the requests made to the provider of one category, in order
CallsOf(category) == SelectSeq(calls, LAMBDA c : c.category = category)

\* the provider answered the request with data
Succeeded(c) ==
    CASE c.category = "stock"    -> c.outcome.kind = "frame" /\ c.outcome.closes # <<>>
      [] c.category = "earnings" -> c.outcome.kind = "rows"
      [] c.category = "news"     -> c.outcome.kind = "data"
      [] OTHER                   -> FALSE

\* process is past the fetch loops
AfterFetch ==
    /\ process_symbols # <<>>
    /\ pc \in {"estimating_risk", "composing", "returned", "done"}

Categories == {"stock", "earnings", "news"}

\* the symbols requested from the provider of one category are the symbols of
\* process, each once and in order, and the aggregate has a key for exactly
\* those whose request succeeded
FetchedPerSymbol(category) ==
    LET made == CallsOf(category)
    IN  /\ [i \in 1..Len(made) |-> made[i].symbol] = process_symbols
        /\ \A i \in 1..Len(made) :
              HasKey(Aggregate(category), made[i].symbol) <=> Succeeded(made[i])

\* C11: within one tool category (stock, earnings, news) the failure of the
\* provider for one symbol is not fatal: that symbol is left out of the
\* aggregate, every later symbol is still fetched, and every symbol whose
\* request succeeded with data is in the aggregate under its own key.
C11_PerSymbolFailureIsNotFatal ==
    AfterFetch => \A category \in Categories :
                     Requested(category) => FetchedPerSymbol(category)

\* C12: when the provider fails for every symbol of a requested category, the
\* aggregate of that category is an empty mapping; it never carries an "error"
\* entry.
C12_AllFailedGivesEmptyMapping ==
    AfterFetch => \A category \in Categories :
                     Requested(category) =>
                        /\ ~HasKey(Aggregate(category), "error")
                        /\ (\A i \in 1..Len(CallsOf(category)) :
                               ~Succeeded(CallsOf(category)[i]))
                           => Aggregate(category) = <<>>

Done == pc = "done"

\* C13: for every query and every combination of successes, failures and
\* raised errors of the language model, the document store and the providers,
\* process_query returns a mapping with a final_result that is a text, not None.
C13_AlwaysAFinalResult ==
    Done =>
        /\ response.type = "dict"
        /\ "final_result" \in response.keys
        /\ response.final_result # NoneText

\* the portfolio came back with an "error" entry, which process returns
\* without a final_result
C13_Witness ==
    /\ Done
    /\ process_result = ProcessError("No portfolio data available")
    /\ response.final_result = NoResultGenerated

\* the document store returned no holdings
NoHoldingsFound == agent_result.success /\ agent_result.data.symbols = <<>>

\* the one text of the program that tells of a missing result
NoDataMessages == {NoResultGenerated}

\* C14: absence of data is a valid outcome and not an error: when the document
\* store returns no holdings, the result of the query carries no error and its
\* final_result is an explicit "no data" message.
C14_NoHoldingsIsNotAnError ==
    (Done /\ NoHoldingsFound) =>
        /\ "error" \notin response.keys
        /\ response.final_result \in NoDataMessages

Composed == composition # NoComposition

ComposeCalls == SelectSeq(calls, LAMBDA c : c.category = "llm" /\ c.symbol = "compose")

\* C17: for every query that reaches the composition of the response, the
\* language model is invoked exactly once for it, and when that call returns,
\* final_result is exactly the text it returned, with nothing before or after.
C17_FinalResultIsTheModelText ==
    Composed =>
        /\ Len(ComposeCalls) = 1
        /\ composition.kind = "text" =>
              /\ process_result.final_result = composition.content
              /\ Done => response.final_result = composition.content

\* the model returned a text and process_query returned it
C17_Witness ==
    /\ Done /\ Composed /\ composition.kind = "text"
    /\ composition.content = Msg("Your portfolio looks balanced.")
    /\ response.final_result = Msg("Your portfolio looks balanced.")
    /\ response.success

\* the intent of the query: query_analysis.get("intent", "unknown")
IntentOfQuery ==
    IF "intent" \in query_analysis.value.keys
    THEN query_analysis.value.intent ELSE "unknown"

SevenIntents ==
    {"risk_exposure", "earnings_surprise", "portfolio", "news", "metadata",
     "stock", "unknown"}

ProcessReturned == pc \in {"returned", "done"} /\ process_result # NoResult

\* C25: every query has exactly one intent out of the seven values of Intent:
\* whenever process returns success = true, and whenever the composition is
\* reached, the intent the prompt template is chosen by is one of the seven,
\* and an intent outside the set coming from query understanding is never
\* answered with success = true.
C25_SuccessOnlyWithKnownIntent ==
    /\ (ProcessReturned /\ process_result.success) => IntentOfQuery \in SevenIntents
    /\ Composed => IntentOfQuery \in SevenIntents
    /\ (ProcessReturned /\ query_analysis.value.type = "dict"
                 /\ IntentOfQuery \notin SevenIntents) =>
          /\ ~process_result.success
          /\ ~Composed

\* query understanding answered with the intent "forecast" and process
\* returned its failure mapping without composing
C25_Witness ==
    /\ Done
    /\ IntentOfQuery = "forecast"
    /\ process_symbols # <<>>
    /\ process_result = ProcessFailure("ValueError")
    /\ ~Composed

\* query understanding returned a mapping whose "filters" entry is a mapping
WellFormedFilters ==
    /\ query_analysis.value.type = "dict"
    /\ "filters" \in query_analysis.value.keys
    /\ query_analysis.value.filters_type = "dict"

\* portfolio retrieval reported an error, or a portfolio without symbols
RetrievalFailed ==
    /\ agent_result # NoEnvelope
    /\ ~agent_result.success \/ agent_result.data.symbols = <<>>

\* the filters name no symbol and the filtered portfolio has none
NoSymbolRemains ==
    /\ pc \in {"returned", "done"}
    /\ ~RetrievalFailed /\ WellFormedFilters
    /\ query_analysis.value.filters.symbols = <<>>
    /\ filtered_portfolio.symbols = <<>>

\* process is past the choice of the symbols
SymbolsChosen ==
    /\ pc \notin {"start", "understanding", "retrieving", "filtering"}
    /\ agent_result # NoEnvelope /\ ~RetrievalFailed
    /\ WellFormedFilters

ProviderCalls == SelectSeq(calls, LAMBDA c : c.category # "llm")

\* C27: the symbols process fetches data for are the symbols of the filters
\* when there are any, held or not, and the symbols of the filtered portfolio
\* otherwise; when portfolio retrieval reports an error or no symbols, or when
\* no symbol remains, process returns a mapping with an "error" entry and
\* without final_result, no provider is called and the composition model is
\* not invoked.
C27_SymbolsFromFiltersElsePortfolio ==
    /\ SymbolsChosen =>
          /\ process_symbols =
                (IF query_analysis.value.filters.symbols # <<>>
                 THEN query_analysis.value.filters.symbols
                 ELSE filtered_portfolio.symbols)
          /\ (AfterFetch /\ Requested("stock")) =>
                [i \in 1..Len(CallsOf("stock")) |-> CallsOf("stock")[i].symbol]
                   = process_symbols
    /\ (ProcessReturned /\ (RetrievalFailed \/ NoSymbolRemains)) =>
          /\ process_result.keys = {"error"}
          /\ ProviderCalls = <<>>
          /\ ~Composed
          /\ process_symbols = <<>>

\* the filters name JPM, which the portfolio does not hold: the filtered
\* portfolio is empty and the price provider is asked about JPM
C27_Witness ==
    /\ Done
    /\ query_analysis.value.filters.symbols = <<"JPM">>
    /\ portfolio_data.symbols = <<"AAPL", "TSM">>
    /\ filtered_portfolio.symbols = <<>>
    /\ process_symbols = <<"JPM">>
    /\ Len(CallsOf("stock")) = 1
    /\ CallsOf("stock")[1].symbol = "JPM"

\* no holding is in the sector of the filters: process returns the error
C27_NoSymbolRemains_Reached ==
    /\ Done /\ NoSymbolRemains
    /\ portfolio_data.symbols = <<"AAPL", "TSM">>
    /\ process_result = ProcessError("No symbols found to process")

\* the statements of process itself find the analysis as they expect it: a
\* mapping with a "filters" mapping, a "tools" entry and an intent of Intent
AnalysisAsExpected ==
    /\ WellFormedFilters
    /\ "tools" \in query_analysis.value.keys
    /\ IntentOfQuery \in SevenIntents

FailureReturned ==
    /\ ProcessReturned
    /\ "success" \in process_result.keys
    /\ ~process_result.success

\* C28: when the language-model call of the composition raises, process still
\* returns success = true with the collected data, and final_result is the
\* fixed apology "I apologize, but I'm having trouble analyzing your portfolio
\* data right now."; success = false is returned only for an exception raised
\* by a statement of process itself (a read of the analysis, the conversion
\* of the intent), never for a failure inside the composition, the retrieval
\* or a fetch helper.
C28_CompositionFailureIsStillSuccess ==
    /\ (ProcessReturned /\ composition.kind = "raise") =>
          process_result =
             Result({"success", "data", "final_result"}, TRUE, None,
                    AnalysisApology)
    /\ FailureReturned =>
          /\ ~AnalysisAsExpected
          /\ ~Composed
          /\ process_result.error \in
                {"TypeError", "KeyError", "AttributeError", "ValueError"}
          /\ process_result.final_result = ProcessApology

\* the price provider raised for every symbol and the composition raised:
\* the caller gets success = true and the apology of the composition
C28_Witness ==
    /\ Done
    /\ composition.kind = "raise"
    /\ CallsOf("stock") # <<>>
    /\ \A i \in 1..Len(CallsOf("stock")) :
          CallsOf("stock")[i].outcome.kind = "raise"
    /\ response.success
    /\ "data" \in response.keys
    /\ response.final_result = AnalysisApology

\* what the collaborators answered during the query of the state
AnswersGiven ==
    Inputs(query, llm_response, agent_result,
           [i \in 1..Len(CallsOf("stock")) |-> CallsOf("stock")[i].outcome],
           [i \in 1..Len(CallsOf("earnings")) |-> CallsOf("earnings")[i].outcome],
           [i \in 1..Len(process_symbols) |-> ProviderOutcome("raise", <<>>)],
           composition)

\* process as a whole returns what its statements, taken one by one, return
ProcessAgreesWithItsSteps ==
    ProcessReturned =>
        LET out == process(NewOrchestrator, AnswersGiven)
        IN  /\ out.result = process_result
            /\ out.data = Collected(stock_data, earnings_data, news_data,
                                    risk_analysis)

\* the query is empty, no text, or made only of whitespace
BlankRequest == request.type # "str" \/ Strip(request.text) = <<>>

InvalidQueryResponse ==
    Result({"error", "final_result", "timestamp"}, FALSE,
           "Invalid query provided", InvalidQueryMessage)

\* C29: process_query invokes the orchestrator only with a non-empty query
\* text: a query that is empty, not a string, or made only of whitespace is
\* answered with error "Invalid query provided" and final_result "Please
\* provide a valid query." and neither the orchestrator, nor the language
\* model, nor a provider is called for it.
C29_BlankQueryNeverReachesOrchestrator ==
    (pc # "start" /\ BlankRequest) =>
        /\ pc = "done"
        /\ response = InvalidQueryResponse
        /\ process_result = NoResult
        /\ llm_response = NoResponse
        /\ calls = <<>>

-----------------------------------------------------------------------------
(* Properties of the speech services *)

\* C20: without cloud credentials the application degrades to text-only
\* operation and never crashes: once the text-to-speech and speech-to-text
\* services have been initialised without credentials the application runs and
\* answers text queries, and a speech request made without a client reports no
\* audio or transcript instead of raising.
C20_NoCredentialsDegradesToTextOnly ==
    (credentials = "unset" /\ pc # "start") =>
        /\ pc \in {"tts_imported", "running"}
        /\ tts_state \notin {"ValueError", "JSONDecodeError", "Exception"}
        /\ transcribe_audio(stt_client, "words") = NoTranscript

-----------------------------------------------------------------------------
(* Properties of the merge of the fragments: PortfolioAgent.process *)

\* the retriever can read holding b of hit a: the fragment is JSON, or it is
\* malformed text and the holding has its five fields
Readable(a, b) ==
    LET hit == store_result.hits[a]
        h == hit.holdings[b]
    IN  \/ hit.kind = "json"
        \/ hit.kind = "malformed" /\ h.symbol # Missing
                                  /\ h.sector # Missing /\ h.region # Missing

\* the places (hit, position in the hit) of the holdings that can be read
Places ==
    UNION { { <<a, b>> : b \in { x \in 1..Len(store_result.hits[a].holdings) :
                                    Readable(a, x) } } :
            a \in 1..Len(store_result.hits) }

HoldingAt(pl) == store_result.hits[pl[1]].holdings[pl[2]]

\* place p comes before place q in hit order
Before(p, q) == p[1] < q[1] \/ (p[1] = q[1] /\ p[2] < q[2])

\* the first place where a holding of that symbol can be read
FirstPlace(pl) ==
    /\ pl \in Places
    /\ HoldingAt(pl).symbol # Missing
    /\ \A q \in Places :
          HoldingAt(q).symbol = HoldingAt(pl).symbol => ~Before(q, pl)

AgentDone == pc = "agent_done" /\ store_result.ok

-----------------------------------------------------------------------------
(* Properties of the order of the external calls *)

\* the stage of process an external call belongs to
Rank(c) ==
    CASE c.category = "llm" /\ c.symbol = "understand" -> 1
      [] c.category = "store"                           -> 2
      [] c.category = "stock"                           -> 4
      [] c.category = "earnings"                        -> 5
      [] c.category = "news"                            -> 6
      [] c.category = "llm" /\ c.symbol = "compose"     -> 8

SymbolsAsked(category) ==
    [i \in 1..Len(CallsOf(category)) |-> CallsOf(category)[i].symbol]

Filtered == query_filters # NoFilterSet

\* C21: within one query the external calls are strictly sequential: at
\* every moment at most one call to the language model, the document store
\* or a provider is outstanding, and a call is issued only when every earlier
\* one has returned; the stages run in the order query understanding,
\* portfolio retrieval, filtering, stock fetch, earnings fetch, news fetch,
\* risk computation, response composition; within a tool category the
\* symbols are asked for one after another in the order of the list.
C21_CallsAreSequential ==
    /\ Cardinality(outstanding) <= 1
    /\ \A i, j \in 1..Len(calls) :
          i < j => /\ calls[i].outcome # Unanswered
                   /\ Rank(calls[i]) <= Rank(calls[j])
    /\ \A category \in Categories :
          SymbolsAsked(category)
             = SubSeq(process_symbols, 1, Len(CallsOf(category)))
    \* filtering comes after the retrieval and before every fetch
    /\ Filtered =>
          \E i \in 1..Len(calls) :
             Rank(calls[i]) = 2 /\ calls[i].outcome # Unanswered
    /\ (\E i \in 1..Len(calls) : Rank(calls[i]) \in 4..6) => Filtered
    \* the risk is computed after every fetch and before the composition
    /\ risk_analysis # NoRisk =>
          /\ pc \in {"composing", "returned", "done"}
          /\ \A i \in 1..Len(calls) :
                Rank(calls[i]) \in 4..6 => calls[i].outcome # Unanswered
    /\ (\E i \in 1..Len(calls) : Rank(calls[i]) = 8) =>
          /\ pc \in {"composing", "returned", "done"}
          /\ Requested("risk") => risk_analysis # NoRisk

\* a query that asked for prices and earnings of two symbols: seven calls,
\* all of them back
C21_Witness ==
    /\ Done
    /\ process_symbols = <<"AAPL", "TSM">>
    /\ [i \in 1..Len(calls) |-> Rank(calls[i])] = <<1, 2, 4, 4, 5, 5, 8>>
    /\ SymbolsAsked("stock") = <<"AAPL", "TSM">>
    /\ SymbolsAsked("earnings") = <<"AAPL", "TSM">>
    /\ outstanding = {}


\* the call is back and brought no data
Failed(c) == c.outcome # Unanswered /\ ~Succeeded(c)

Hung == \E c \in outstanding : ~c.returns

\* C23: process wraps no external call in a timeout: a query whose external
\* calls all return or raise is answered, and once a single external call
\* never returns the query never completes and nothing is delivered, neither
\* a result of process nor a partial result to the caller.
C23_NoTimeoutAllOrNothing ==
    /\ <>(Done \/ Hung)
    /\ [](Hung => [](/\ Hung
                     /\ ~Done
                     /\ process_result = NoResult
                     /\ response = NoResult))

\* the prices of AAPL are in, and the call for TSM never returns
C23_Witness ==
    /\ Hung
    /\ pc = "fetching_stock"
    /\ HasKey(stock_data, "AAPL")
    /\ \E c \in outstanding : c.category = "stock" /\ c.symbol = "TSM"
    /\ response = NoResult

\* ---- C24 ----

\* query `i` and query `j` of the session got the same text and the same
\* answers from every collaborator
SameInputs(i, j) == session[i].inputs = session[j].inputs

\* query `i` of the session returned what the statements of process return
\* on an orchestrator that has processed nothing, given the same answers
AsFirstQuery(i) ==
    LET out == process_steps(NewOrchestrator, session[i].inputs)
    IN  session[i].result = out.result /\ session[i].data = out.data

\* C24: across any sequence of queries the orchestrator's result cache stays
\* empty and no other field of the orchestrator changes; every query returns
\* what it would return as the first query of a new orchestrator, and two
\* queries with the same text and the same answers of the collaborators have
\* the same result and collect the same data, whatever was processed before.
C24_ProcessIsStateless ==
    /\ orchestrator._cache = <<>>
    /\ orchestrator = NewOrchestrator
    /\ \A i \in 1..Len(session) : AsFirstQuery(i)
    /\ \A i, j \in 1..Len(session) :
          SameInputs(i, j) => /\ session[i].result = session[j].result
                              /\ session[i].data = session[j].data

\* the second query of a session repeats the text of the first, the
\* collaborators answer differently, and the result differs from the first
C24_Witness ==
    /\ Len(session) >= 2
    /\ session[1].inputs.query = session[2].inputs.query
    /\ session[1].inputs # session[2].inputs
    /\ session[1].result.success /\ session[2].result.success
    /\ session[1].result # session[2].result
    /\ orchestrator = NewOrchestrator

\* ---- C30 ----

\* the calls of embed_text into the namespace whose record of index `i` was
\* upserted
Producers(namespace, i) ==
    { k \in 1..Len(embedded) :
         embedded[k].namespace = namespace /\ embedded[k].upserted > i }

\* the records the store holds under doc_i in the namespace
StoredUnder(namespace, i) ==
    { r \in Range(records) : r.namespace = namespace /\ r._id = DocId(i) }

\* the most recent of the calls
MostRecent(ks) == CHOOSE k \in ks : \A other \in ks : other <= k

\* no call produces more chunks than its text has characters
MostChunks ==
    CHOOSE n \in { Len(t) : t \in DocTexts } : \A t \in DocTexts : Len(t) <= n

\* C30: after any sequence of embed_text calls, alone or made by embed_file
\* for the rows or items of a file, the store holds under doc_i of a
\* namespace exactly one record, chunk i and the metadata of the most recent
\* call into that namespace that upserted at least i+1 chunks, and no record
\* when no call did; every id of the store is one of doc_0, doc_1, ...
C30_IdsRestartAtEveryCall ==
    /\ \A r \in Range(records) :
          \E i \in 0..MostChunks : r._id = DocId(i) /\ r.namespace \in Namespaces
    /\ \A namespace \in Namespaces, i \in 0..MostChunks :
          IF Producers(namespace, i) = {}
          THEN StoredUnder(namespace, i) = {}
          ELSE LET call == embedded[MostRecent(Producers(namespace, i))]
               IN  StoredUnder(namespace, i) =
                      { [namespace |-> namespace, _id |-> DocId(i),
                         chunk_text |-> call.chunks[i + 1],
                         meta |-> call.meta] }

\* two rows of one file were embedded into one namespace: doc_0 holds the
\* first chunk of the second row in place of that of the first, and a higher
\* index still holds a chunk of the first row
C30_Witness ==
    /\ Len(embedded) >= 2
    /\ embedded[1].namespace = embedded[2].namespace
    /\ embedded[1].meta.index = <<0>> /\ embedded[2].meta.index = <<1>>
    /\ embedded[2].upserted > 0
    /\ embedded[1].upserted > embedded[2].upserted
    /\ Head(embedded[1].chunks) # Head(embedded[2].chunks)
    /\ \E r \in Range(records) :
          /\ r._id = DocId(0) /\ r.chunk_text = Head(embedded[2].chunks)
          /\ r.meta = embedded[2].meta
    /\ \E r \in Range(records) :
          /\ r._id = DocId(embedded[2].upserted)
          /\ r.meta = embedded[1].meta
    /\ Len(records) = embedded[1].upserted

=============================================================================
